---- MODULE Spec2Model ----
(***************************************************************************)
(* Adafruit_SPITFT (mbed port): the clipping arithmetic, the startWrite /  *)
(* endWrite bracket, the hardware-SPI / software-SPI dispatch and the      *)
(* shared scratch buffer, as a state machine.  Every public member        *)
(* function is one atomic action; what it puts on the bus is recorded, in  *)
(* order, in `log`.                                                        *)
(*                                                                         *)
(* Conventions                                                             *)
(*  - int16_t / uint16_t / uint32_t / int keep their widths: every         *)
(*    assignment in the source is followed here by the conversion to the   *)
(*    type of the variable assigned (I16, U16, U8), wrap-around.  A        *)
(*    32-bit value (uint32_t, int) is carried as the signed reading of     *)
(*    its 32 bits, which is the range of TLC's integers: a                 *)
(*    uint32_t above 0x7FFFFFFF appears as the negative number with the    *)
(*    same bits.                                                           *)
(*  - the target is little-endian (ARM, mbed): a uint16_t store puts the   *)
(*    low byte at the lower address.                                       *)
(*  - malloc in initSPI succeeds.                                          *)
(*  - setAddrWindow is pure virtual: the call and its arguments are        *)
(*    recorded, the subclass' own bus traffic is not modelled.             *)
(*  - callers follow the documented protocol: initSPI first, write*        *)
(*    functions inside a startWrite/endWrite pair, self-contained          *)
(*    functions outside one.                                               *)
(***************************************************************************)
EXTENDS Integers, Sequences, FiniteSets, TLC

(* ------------------------------------------------------------------ *)
(* Bounds of the model                                                *)
(* ------------------------------------------------------------------ *)
\* canvas size handed to the constructor (Adafruit_GFX _width, _height)
CanvasW == 6
CanvasH == 5
\* operations performed after construction in one behaviour of Spec
MaxOps == 3

(* ------------------------------------------------------------------ *)
(* Program constants                                                  *)
(* ------------------------------------------------------------------ *)
TFT_HARD_SPI == 0
TFT_SOFT_SPI == 1
SPI_BUFFER_SIZE == 1024
HIGH == 1
LOW == 0

_width == CanvasW
_height == CanvasH

(* ------------------------------------------------------------------ *)
(* Fixed-width integer conversions                                    *)
(* ------------------------------------------------------------------ *)
U8(v) == v % 256
U16(v) == v % 65536
I16(v) == LET u == v % 65536 IN IF u >= 32768 THEN u - 65536 ELSE u

\* (int)(2 * len) for a uint32_t len: the low 32 bits of the product
Twice32(len) ==
    IF len >= 1073741824 THEN ((len - 1073741824) * 2) + (-2147483647 - 1)
    ELSE IF len < -1073741824 THEN ((len + 2147483647) + 1) * 2
    ELSE 2 * len

\* the sum in place of the product: C4 does not hold of it
Add32(w, h) == w + h

\* (uint32_t)w * h for int16_t w, h: the product has at most 31 bits
Mul32(w, h) == w * h

Min(a, b) == IF a < b THEN a ELSE b

highByte(w) == U8(U16(w) \div 256)
lowByte(w) == U8(w)

\* ((x & 0x00ff) << 8) | (((x & 0xff00) >> 8) & 0x00ff)
SWAP_BYTES(x) == U16(((U16(x) % 256) * 256) + ((U16(x) \div 256) % 256))

(* ------------------------------------------------------------------ *)
(* State                                                              *)
(* ------------------------------------------------------------------ *)
VARIABLES
    connection,  \* TFT_HARD_SPI or TFT_SOFT_SPI, fixed by the constructor
    inited,      \* initSPI has run
    cs,          \* level of the chip-select pin _cs
    dc,          \* level of the data/command pin _dc
    rst,         \* level of the reset pin _rst
    mosi,        \* level of the bit-bang data-out pin swspi._mosi
    sck,         \* level of the bit-bang clock pin swspi._sck
    spi_buffer,  \* contents of the global scratch buffer, <<>> while NULL
    allocs,      \* malloc calls made for spi_buffer so far
    txn,         \* "Idle" / "Active": last of startWrite, endWrite called
    halted,      \* the program has faulted (undefined behaviour trapped)
    undef,       \* the kinds of undefined access the last operation made:
                 \* "null" (store through the unallocated spi_buffer),
                 \* "union" (call through hwspi on a software-SPI instance),
                 \* "overrun" (store or read past the end of spi_buffer)
    log,         \* bus events of the last operation, in order
    wave,        \* <<MOSI, SCK>> after each pin write of the last bit-banged
                 \* word of the last operation
    ret,         \* value returned by the last operation, 0 if it is void
    req,         \* the last operation and its arguments
    starts,      \* startWrite calls since construction
    ends,        \* endWrite calls since construction
    nops         \* operations performed since construction

vars == <<connection, inited, cs, dc, rst, mosi, sck, spi_buffer, allocs,
          txn, halted, undef, log, wave, ret, req, starts, ends, nops>>

\* The part of the state the member functions read and write, as one record
\* threaded through the operators below.
Cur == [cs |-> cs, dc |-> dc, rst |-> rst, mosi |-> mosi, sck |-> sck,
        buf |-> spi_buffer, allocs |-> allocs, txn |-> txn,
        halted |-> halted, undef |-> {}, log |-> <<>>, wave |-> <<>>,
        ret |-> 0]

\* One bus-level event, with the levels of chip-select and data/command at
\* the time it is issued.
Emit(m, ev, args) ==
    [m EXCEPT !.log = Append(@, [ev |-> ev, args |-> args, cs |-> m.cs, dc |-> m.dc])]

Count(l, ev) == Cardinality({i \in DOMAIN l : l[i].ev = ev})

(* ------------------------------------------------------------------ *)
(* Line primitives                                                    *)
(* ------------------------------------------------------------------ *)
SPI_CS_HIGH(m) == [m EXCEPT !.cs = HIGH]
SPI_CS_LOW(m) == [m EXCEPT !.cs = LOW]
SPI_DC_HIGH(m) == [m EXCEPT !.dc = HIGH]
SPI_DC_LOW(m) == [m EXCEPT !.dc = LOW]
SPI_MOSI_HIGH(m) == [m EXCEPT !.mosi = HIGH]
SPI_MOSI_LOW(m) == [m EXCEPT !.mosi = LOW]
SPI_SCK_HIGH(m) == [m EXCEPT !.sck = HIGH]
SPI_SCK_LOW(m) == [m EXCEPT !.sck = LOW]

\* both bodies are empty in this port
SPI_BEGIN_TRANSACTION(m) == m
SPI_END_TRANSACTION(m) == m

(* ------------------------------------------------------------------ *)
(* Transports                                                         *)
(* ------------------------------------------------------------------ *)
\* hwspi._spi->write(buffer, n, NULL, 0) and hwspi._spi->write(byte): the
\* bytes handed to the SPI peripheral, in order.
HwWrite(m, bytes) == Emit(m, "spi", bytes)

\* The values the bit-bang loop tests: for each of n bits the top bit of
\* the value (x & top), then the value shifted left (x <<= 1).  `top` is
\* the mask of the top bit (0x80, 0x8000).
RECURSIVE ShiftOut(_, _, _)
ShiftOut(v, n, top) ==
    IF n = 0 THEN <<>>
    ELSE <<IF (v \div top) % 2 = 1 THEN HIGH ELSE LOW>>
         \o ShiftOut((v * 2) % (2 * top), n - 1, top)

\* The levels of MOSI and SCK, sampled after a pin write
Sample(m) == [m EXCEPT !.wave = Append(@, <<m.mosi, m.sck>>)]

\* one bit with the clock raised before the data line is driven: C17 does
\* not hold of it
PulseClockFirst(m, level) ==
    LET m1 == Sample(SPI_SCK_HIGH(m))
        m2 == Sample(IF level = HIGH THEN SPI_MOSI_HIGH(m1) ELSE SPI_MOSI_LOW(m1))
    IN Sample(SPI_SCK_LOW(m2))

\* One iteration of the loop: if (x & top) SPI_MOSI_HIGH(); else
\* SPI_MOSI_LOW(); SPI_SCK_HIGH(); SPI_SCK_LOW();
Pulse(m, level) ==
    LET m1 == Sample(IF level = HIGH THEN SPI_MOSI_HIGH(m) ELSE SPI_MOSI_LOW(m))
        m2 == Sample(SPI_SCK_HIGH(m1))
    IN Sample(SPI_SCK_LOW(m2))

RECURSIVE Pulses(_, _)
Pulses(m, bits) ==
    IF bits = <<>> THEN m
    ELSE LET m1 == Pulse(m, Head(bits))
         IN IF m1.halted THEN m1 ELSE Pulses(m1, Tail(bits))

\* The MOSI levels at the rising edges of SCK in a run of samples that
\* starts with SCK at level sck0
RisingBits(w, sck0) ==
    LET rising(i) == /\ w[i][2] = HIGH
                     /\ (IF i = 1 THEN sck0 ELSE w[i - 1][2]) = LOW
        at == SelectSeq([i \in 1..Len(w) |-> i], rising)
    IN [k \in 1..Len(at) |-> w[at[k]][1]]

\* One bit-banged word; what the display clocks in is entered in the log
BitBang(m, bits) ==
    LET m1 == Pulses([m EXCEPT !.wave = <<>>], bits)
    IN Emit(m1, "clk", RisingBits(m1.wave, m.sck))

SPI_WRITE8(m, b) ==
    IF connection = TFT_HARD_SPI THEN HwWrite(m, <<U8(b)>>)
    ELSE IF connection = TFT_SOFT_SPI THEN BitBang(m, ShiftOut(U8(b), 8, 128))
    ELSE m

SPI_WRITE16(m, w) ==
    IF connection = TFT_HARD_SPI
    THEN HwWrite(m, <<U8(U16(w) \div 256), U8(w)>>)
    ELSE IF connection = TFT_SOFT_SPI THEN BitBang(m, ShiftOut(U16(w), 16, 32768))
    ELSE m

\* the 32 bits leave top bit first: the 16 of the upper half, then the 16
\* of the lower half
SPI_WRITE32(m, l) ==
    IF connection = TFT_HARD_SPI
    THEN HwWrite(m, <<U8(l \div 16777216), U8(l \div 65536), U8(l \div 256), U8(l)>>)
    ELSE IF connection = TFT_SOFT_SPI
    THEN BitBang(m, ShiftOut(U16(l \div 65536), 16, 32768) \o ShiftOut(U16(l), 16, 32768))
    ELSE m

\* writeCommand releasing chip-select when it is done: C26 does not hold of
\* it
writeCommandDeselecting(m, cmd) == SPI_CS_HIGH(SPI_DC_HIGH(SPI_WRITE8(SPI_DC_LOW(m), cmd)))

\* writeCommand leaving data/command high: C10 does not hold of it
writeCommandAsData(m, cmd) == SPI_DC_HIGH(SPI_WRITE8(m, cmd))

writeCommand(m, cmd) == SPI_DC_HIGH(SPI_WRITE8(SPI_DC_LOW(m), cmd))

\* virtual void setAddrWindow(uint16_t x, uint16_t y, uint16_t w, uint16_t h)
setAddrWindow(m, x, y, w, h) ==
    Emit(m, "setAddrWindow", <<U16(x), U16(y), U16(w), U16(h)>>)

(* ------------------------------------------------------------------ *)
(* Transaction bracket                                                *)
(* ------------------------------------------------------------------ *)
\* `_cs >= 0` reads the pin (DigitalInOut::operator int), 0 or 1
\* startWrite leaving chip-select as it is: C9 does not hold of it
startWriteUnselected(m) ==
    Emit(SPI_BEGIN_TRANSACTION([m EXCEPT !.txn = "Active"]), "startWrite", <<>>)

startWrite(m) ==
    LET m1 == SPI_BEGIN_TRANSACTION([m EXCEPT !.txn = "Active"])
        m2 == IF m1.cs >= 0 THEN SPI_CS_LOW(m1) ELSE m1
    IN Emit(m2, "startWrite", <<>>)

endWrite(m) ==
    LET m1 == IF m.cs >= 0 THEN SPI_CS_HIGH(m) ELSE m
        m2 == SPI_END_TRANSACTION([m1 EXCEPT !.txn = "Idle"])
    IN Emit(m2, "endWrite", <<>>)

(* ------------------------------------------------------------------ *)
(* Pixel runs                                                         *)
(* ------------------------------------------------------------------ *)
\* for (int remaining_bytes = ...; remaining_bytes > 0;
\*      remaining_bytes -= SPI_BUFFER_SIZE) write(spi_buffer, min(...))
RECURSIVE ColorChunks(_, _)
ColorChunks(m, remaining_bytes) ==
    IF remaining_bytes > 0
    THEN ColorChunks(HwWrite(m, SubSeq(m.buf, 1, Min(remaining_bytes, SPI_BUFFER_SIZE))),
                     remaining_bytes - SPI_BUFFER_SIZE)
    ELSE m

\* StageColor storing the color without SWAP_BYTES: C14 does not hold of it
StageColorUnswapped(color) ==
    [i \in 1..SPI_BUFFER_SIZE |-> IF i % 2 = 1 THEN U16(color) % 256 ELSE U16(color) \div 256]

\* memset(spi_buffer, hi, SPI_BUFFER_SIZE), or SWAP_BYTES(color) stored in
\* every uint16_t slot of the buffer (little-endian store)
StageColor(color) ==
    LET hi == highByte(color)
        lo == lowByte(color)
        data == SWAP_BYTES(color)
    IN IF hi = lo
       THEN [i \in 1..SPI_BUFFER_SIZE |-> hi]
       ELSE [i \in 1..SPI_BUFFER_SIZE |->
                IF i % 2 = 1 THEN data % 256 ELSE data \div 256]

\* while (len--) { 16 x (MOSI, SCK high, shift, SCK low) }: iterations
\* lo..hi of the loop, one after the other (the range is halved only to
\* keep the evaluation shallow)
RECURSIVE ColorBits(_, _, _, _)
ColorBits(m, color, lo, hi) ==
    IF lo > hi THEN m
    ELSE IF lo = hi THEN BitBang(m, ShiftOut(U16(color), 16, 32768))
    ELSE LET mid == (lo + hi) \div 2
             m1 == ColorBits(m, color, lo, mid)
         IN IF m1.halted THEN m1 ELSE ColorBits(m1, color, mid + 1, hi)

\* The call itself is entered in the log ("writeColor", with its arguments)
\* ahead of what it puts on the bus.
writeColor(m, color, len) ==
    LET m0 == Emit(m, "writeColor", <<color, len>>)
    IN IF len = 0 THEN m0
       ELSE IF connection = TFT_HARD_SPI
       THEN ColorChunks([m0 EXCEPT !.buf = StageColor(color)], Twice32(len))
       ELSE IF connection = TFT_SOFT_SPI
       THEN ColorBits(m0, color, 1, len)
       ELSE m0

\* The inner loop of writePixels starting over from the first element in
\* every chunk: C13 does not hold of it
FillPixelsFromStart(buf, colors, off, i, len) ==
    LET k == Min(SPI_BUFFER_SIZE \div 2, len - i)
    IN [j \in 1..SPI_BUFFER_SIZE |->
          IF j <= 2 * k
          THEN IF j % 2 = 1 THEN highByte(colors[off + ((j - 1) \div 2) + 1])
                            ELSE lowByte(colors[off + ((j - 1) \div 2) + 1])
          ELSE buf[j]]

\* The inner loop of writePixels: from element i on, two bytes per element
\* at the start of the buffer, until the buffer or the array is exhausted.
\* colors is the caller's array, off the index of the element the pointer
\* passed to writePixels refers to.
FillPixels(buf, colors, off, i, len) ==
    LET k == Min(SPI_BUFFER_SIZE \div 2, len - i)
    IN [j \in 1..SPI_BUFFER_SIZE |->
          IF j <= 2 * k
          THEN IF j % 2 = 1 THEN highByte(colors[off + i + ((j - 1) \div 2) + 1])
                            ELSE lowByte(colors[off + i + ((j - 1) \div 2) + 1])
          ELSE buf[j]]

RECURSIVE PixelChunks(_, _, _, _, _, _)
PixelChunks(m, colors, off, i, len, remaining_bytes) ==
    IF remaining_bytes > 0
    THEN LET m1 == [m EXCEPT !.buf = FillPixels(m.buf, colors, off, i, len)]
             m2 == HwWrite(m1, SubSeq(m1.buf, 1, Min(remaining_bytes, SPI_BUFFER_SIZE)))
         IN PixelChunks(m2, colors, off, i + Min(SPI_BUFFER_SIZE \div 2, len - i), len,
                        remaining_bytes - SPI_BUFFER_SIZE)
    ELSE m

\* while (len--) SPI_WRITE16(*colors++): iterations lo..hi of the loop, one
\* after the other (the range is halved only to keep the evaluation shallow)
RECURSIVE PixelWords(_, _, _, _, _)
PixelWords(m, colors, off, lo, hi) ==
    IF lo > hi THEN m
    ELSE IF lo = hi THEN SPI_WRITE16(m, colors[off + lo])
    ELSE LET mid == (lo + hi) \div 2
             m1 == PixelWords(m, colors, off, lo, mid)
         IN IF m1.halted THEN m1 ELSE PixelWords(m1, colors, off, mid + 1, hi)

\* block and bigEndian are not read by the function
writePixels(m, colors, off, len) ==
    IF len = 0 THEN m
    ELSE IF connection = TFT_HARD_SPI
    THEN PixelChunks(m, colors, off, 0, len, Twice32(len))
    ELSE PixelWords(m, colors, off, 1, len)

\* writeFillRectPreclipped setting the window a second time after the run:
\* C7 does not hold of it
writeFillRectPreclippedTwice(m, x, y, w, h, color) ==
    setAddrWindow(writeColor(setAddrWindow(m, x, y, w, h), color, Mul32(w, h)), x, y, w, h)

writeFillRectPreclipped(m, x, y, w, h, color) ==
    writeColor(setAddrWindow(m, x, y, w, h), color, Mul32(w, h))

\* writePixel making its own bracket, as drawPixel does: C25 does not
\* hold of it
writePixelBracketed(m, x, y, color) ==
    IF (x >= 0) /\ (x < _width) /\ (y >= 0) /\ (y < _height)
    THEN endWrite(SPI_WRITE16(setAddrWindow(startWrite(m), x, y, 1, 1), color))
    ELSE m

writePixel(m, x, y, color) ==
    IF (x >= 0) /\ (x < _width) /\ (y >= 0) /\ (y < _height)
    THEN SPI_WRITE16(setAddrWindow(m, x, y, 1, 1), color)
    ELSE m

(* ------------------------------------------------------------------ *)
(* Clipped fills and lines, not self-contained                        *)
(* ------------------------------------------------------------------ *)
writeFillRect(m, x, y, w, h, color) ==
    IF (w # 0) /\ (h # 0)
    THEN LET xa == IF w < 0 THEN I16(x + w + 1) ELSE x
             wa == IF w < 0 THEN I16(-w) ELSE w
         IN IF xa < _width
            THEN LET ya == IF h < 0 THEN I16(y + h + 1) ELSE y
                     ha == IF h < 0 THEN I16(-h) ELSE h
                 IN IF ya < _height
                    THEN LET x2 == I16(xa + wa - 1)
                         IN IF x2 >= 0
                            THEN LET y2 == I16(ya + ha - 1)
                                 IN IF y2 >= 0
                                    THEN LET xb == IF xa < 0 THEN 0 ELSE xa
                                             wb == IF xa < 0 THEN I16(x2 + 1) ELSE wa
                                             yb == IF ya < 0 THEN 0 ELSE ya
                                             hb == IF ya < 0 THEN I16(y2 + 1) ELSE ha
                                             wc == IF x2 >= _width THEN I16(_width - xb) ELSE wb
                                             hc == IF y2 >= _height THEN I16(_height - yb) ELSE hb
                                         IN writeFillRectPreclipped(m, xb, yb, wc, hc, color)
                                    ELSE m
                            ELSE m
                    ELSE m
            ELSE m
    ELSE m

\* writeFastHLine without the clip of the right edge: C2 does not hold of it
writeFastHLineNoRightClip(m, x, y, w, color) ==
    IF (y >= 0) /\ (y < _height) /\ (w # 0)
    THEN LET xa == IF w < 0 THEN I16(x + w + 1) ELSE x
             wa == IF w < 0 THEN I16(-w) ELSE w
         IN IF xa < _width
            THEN LET x2 == I16(xa + wa - 1)
                 IN IF x2 >= 0
                    THEN LET xb == IF xa < 0 THEN 0 ELSE xa
                             wb == IF xa < 0 THEN I16(x2 + 1) ELSE wa
                         IN writeFillRectPreclipped(m, xb, y, wb, 1, color)
                    ELSE m
            ELSE m
    ELSE m

writeFastHLine(m, x, y, w, color) ==
    IF (y >= 0) /\ (y < _height) /\ (w # 0)
    THEN LET xa == IF w < 0 THEN I16(x + w + 1) ELSE x
             wa == IF w < 0 THEN I16(-w) ELSE w
         IN IF xa < _width
            THEN LET x2 == I16(xa + wa - 1)
                 IN IF x2 >= 0
                    THEN LET xb == IF xa < 0 THEN 0 ELSE xa
                             wb == IF xa < 0 THEN I16(x2 + 1) ELSE wa
                             wc == IF x2 >= _width THEN I16(_width - xb) ELSE wb
                         IN writeFillRectPreclipped(m, xb, y, wc, 1, color)
                    ELSE m
            ELSE m
    ELSE m

\* writeFastVLine moving the origin by h instead of h + 1 for a negative
\* height: C5 does not hold of it
writeFastVLineShifted(m, x, y, h, color) ==
    IF (x >= 0) /\ (x < _width) /\ (h # 0)
    THEN LET ya == IF h < 0 THEN I16(y + h) ELSE y
             ha == IF h < 0 THEN I16(-h) ELSE h
         IN IF ya < _height
            THEN LET y2 == I16(ya + ha - 1)
                 IN IF y2 >= 0
                    THEN LET yb == IF ya < 0 THEN 0 ELSE ya
                             hb == IF ya < 0 THEN I16(y2 + 1) ELSE ha
                             hc == IF y2 >= _height THEN I16(_height - yb) ELSE hb
                         IN writeFillRectPreclipped(m, x, yb, 1, hc, color)
                    ELSE m
            ELSE m
    ELSE m

writeFastVLine(m, x, y, h, color) ==
    IF (x >= 0) /\ (x < _width) /\ (h # 0)
    THEN LET ya == IF h < 0 THEN I16(y + h + 1) ELSE y
             ha == IF h < 0 THEN I16(-h) ELSE h
         IN IF ya < _height
            THEN LET y2 == I16(ya + ha - 1)
                 IN IF y2 >= 0
                    THEN LET yb == IF ya < 0 THEN 0 ELSE ya
                             hb == IF ya < 0 THEN I16(y2 + 1) ELSE ha
                             hc == IF y2 >= _height THEN I16(_height - yb) ELSE hb
                         IN writeFillRectPreclipped(m, x, yb, 1, hc, color)
                    ELSE m
            ELSE m
    ELSE m

(* ------------------------------------------------------------------ *)
(* Self-contained operations                                          *)
(* ------------------------------------------------------------------ *)
\* drawPixel without its bounds test: C1 does not hold of it
drawPixelUnclipped(m, x, y, color) ==
    endWrite(SPI_WRITE16(setAddrWindow(startWrite(m), x, y, 1, 1), color))

drawPixel(m, x, y, color) ==
    IF (x >= 0) /\ (x < _width) /\ (y >= 0) /\ (y < _height)
    THEN endWrite(SPI_WRITE16(setAddrWindow(startWrite(m), x, y, 1, 1), color))
    ELSE m

\* fillRect as a bracket around writeFillRect that is made for positive
\* extents only: C27 does not hold of it
fillRectPositiveOnly(m, x, y, w, h, color) ==
    IF (w > 0) /\ (h > 0) THEN endWrite(writeFillRect(startWrite(m), x, y, w, h, color))
    ELSE m

fillRect(m, x, y, w, h, color) ==
    IF (w # 0) /\ (h # 0)
    THEN LET xa == IF w < 0 THEN I16(x + w + 1) ELSE x
             wa == IF w < 0 THEN I16(-w) ELSE w
         IN IF xa < _width
            THEN LET ya == IF h < 0 THEN I16(y + h + 1) ELSE y
                     ha == IF h < 0 THEN I16(-h) ELSE h
                 IN IF ya < _height
                    THEN LET x2 == I16(xa + wa - 1)
                         IN IF x2 >= 0
                            THEN LET y2 == I16(ya + ha - 1)
                                 IN IF y2 >= 0
                                    THEN LET xb == IF xa < 0 THEN 0 ELSE xa
                                             wb == IF xa < 0 THEN I16(x2 + 1) ELSE wa
                                             yb == IF ya < 0 THEN 0 ELSE ya
                                             hb == IF ya < 0 THEN I16(y2 + 1) ELSE ha
                                             wc == IF x2 >= _width THEN I16(_width - xb) ELSE wb
                                             hc == IF y2 >= _height THEN I16(_height - yb) ELSE hb
                                         IN endWrite(writeFillRectPreclipped(
                                                startWrite(m), xb, yb, wc, hc, color))
                                    ELSE m
                            ELSE m
                    ELSE m
            ELSE m
    ELSE m

drawFastHLine(m, x, y, w, color) ==
    IF (y >= 0) /\ (y < _height) /\ (w # 0)
    THEN LET xa == IF w < 0 THEN I16(x + w + 1) ELSE x
             wa == IF w < 0 THEN I16(-w) ELSE w
         IN IF xa < _width
            THEN LET x2 == I16(xa + wa - 1)
                 IN IF x2 >= 0
                    THEN LET xb == IF xa < 0 THEN 0 ELSE xa
                             wb == IF xa < 0 THEN I16(x2 + 1) ELSE wa
                             wc == IF x2 >= _width THEN I16(_width - xb) ELSE wb
                         IN endWrite(writeFillRectPreclipped(
                                startWrite(m), xb, y, wc, 1, color))
                    ELSE m
            ELSE m
    ELSE m

\* drawFastVLine clipping the bottom edge one row short: C3 does not hold
\* of it
drawFastVLineShortClip(m, x, y, h, color) ==
    IF (x >= 0) /\ (x < _width) /\ (h # 0)
    THEN LET ya == IF h < 0 THEN I16(y + h + 1) ELSE y
             ha == IF h < 0 THEN I16(-h) ELSE h
         IN IF ya < _height
            THEN LET y2 == I16(ya + ha - 1)
                 IN IF y2 >= 0
                    THEN LET yb == IF ya < 0 THEN 0 ELSE ya
                             hb == IF ya < 0 THEN I16(y2 + 1) ELSE ha
                             hc == IF y2 >= _height - 1 THEN I16(_height - yb - 1) ELSE hb
                         IN endWrite(writeFillRectPreclipped(
                                startWrite(m), x, yb, 1, hc, color))
                    ELSE m
            ELSE m
    ELSE m

drawFastVLine(m, x, y, h, color) ==
    IF (x >= 0) /\ (x < _width) /\ (h # 0)
    THEN LET ya == IF h < 0 THEN I16(y + h + 1) ELSE y
             ha == IF h < 0 THEN I16(-h) ELSE h
         IN IF ya < _height
            THEN LET y2 == I16(ya + ha - 1)
                 IN IF y2 >= 0
                    THEN LET yb == IF ya < 0 THEN 0 ELSE ya
                             hb == IF ya < 0 THEN I16(y2 + 1) ELSE ha
                             hc == IF y2 >= _height THEN I16(_height - yb) ELSE hb
                         IN endWrite(writeFillRectPreclipped(
                                startWrite(m), x, yb, 1, hc, color))
                    ELSE m
            ELSE m
    ELSE m

pushColor(m, color) == endWrite(SPI_WRITE16(startWrite(m), color))

(* ------------------------------------------------------------------ *)
(* Bitmaps                                                            *)
(* ------------------------------------------------------------------ *)
\* while (h--) { writePixels(pcolors, w); pcolors += saveW; }
RECURSIVE BitmapRows(_, _, _, _, _, _)
BitmapRows(m, pcolors, off, w, saveW, h) ==
    IF h = 0 THEN m
    ELSE LET m1 == writePixels(m, pcolors, off, w)
         IN IF m1.halted THEN m1
            ELSE BitmapRows(m1, pcolors, off + saveW, w, saveW, I16(h - 1))

\* drawRGBBitmap setting the window to the size of the whole source: C20
\* does not hold of it
drawRGBBitmapSourceWindow(m, x, y, pcolors, w, h) ==
    LET x2 == I16(x + w - 1)
        y2 == I16(y + h - 1)
    IN IF (x >= _width) \/ (y >= _height) \/ (x2 < 0) \/ (y2 < 0)
       THEN m
       ELSE LET saveW == w
                wa == IF x < 0 THEN I16(w + x) ELSE w
                bx1 == IF x < 0 THEN I16(-x) ELSE 0
                xa == IF x < 0 THEN 0 ELSE x
                ha == IF y < 0 THEN I16(h + y) ELSE h
                by1 == IF y < 0 THEN I16(-y) ELSE 0
                ya == IF y < 0 THEN 0 ELSE y
                wb == IF x2 >= _width THEN I16(_width - xa) ELSE wa
                hb == IF y2 >= _height THEN I16(_height - ya) ELSE ha
                m1 == setAddrWindow(startWrite(m), xa, ya, saveW, h)
            IN endWrite(BitmapRows(m1, pcolors, (by1 * saveW) + bx1, wb, saveW, hb))

drawRGBBitmap(m, x, y, pcolors, w, h) ==
    LET x2 == I16(x + w - 1)
        y2 == I16(y + h - 1)
    IN IF (x >= _width) \/ (y >= _height) \/ (x2 < 0) \/ (y2 < 0)
       THEN m
       ELSE LET saveW == w
                wa == IF x < 0 THEN I16(w + x) ELSE w
                bx1 == IF x < 0 THEN I16(-x) ELSE 0
                xa == IF x < 0 THEN 0 ELSE x
                ha == IF y < 0 THEN I16(h + y) ELSE h
                by1 == IF y < 0 THEN I16(-y) ELSE 0
                ya == IF y < 0 THEN 0 ELSE y
                wb == IF x2 >= _width THEN I16(_width - xa) ELSE wa
                hb == IF y2 >= _height THEN I16(_height - ya) ELSE ha
                m1 == setAddrWindow(startWrite(m), xa, ya, wb, hb)
            IN endWrite(BitmapRows(m1, pcolors, (by1 * saveW) + bx1, wb, saveW, hb))

\* C integer division truncates toward zero
CDiv(a, b) == IF a >= 0 THEN a \div b ELSE -((-a) \div b)

\* store of a uint16_t in slot i of the buffer (little-endian)
Store16(buf, i, data) ==
    [buf EXCEPT ![(2 * i) + 1] = data % 256, ![(2 * i) + 2] = data \div 256]

\* one pixel staged from the top bit of `byte`, which is shifted left:
\* C22 does not hold of it
StagePixelTopBit(st, bitmap, j, byteWidth, i, fg_color_data, bg_color_data) ==
    LET b == IF i % 8 # 0 THEN (st.byte * 2) % 256
             ELSE bitmap[(j * byteWidth) + CDiv(i, 8) + 1]
    IN [buf |-> Store16(st.buf, i, IF b \div 128 = 1 THEN fg_color_data ELSE bg_color_data),
        byte |-> b]

\* The body of for (i = 0; i < w; i++): shift or reload `byte`, then stage
\* one pixel.  st holds the buffer and `byte`.
StagePixel(st, bitmap, j, byteWidth, i, fg_color_data, bg_color_data) ==
    LET b == IF i % 8 # 0 THEN st.byte \div 2
             ELSE bitmap[(j * byteWidth) + CDiv(i, 8) + 1]
    IN [buf |-> Store16(st.buf, i, IF b % 2 = 1 THEN fg_color_data ELSE bg_color_data),
        byte |-> b]

\* for (i = 0; i < w; i++): iterations lo .. hi - 1 of the loop, one after
\* the other (the range is halved only to keep the evaluation shallow)
RECURSIVE StageRow(_, _, _, _, _, _, _, _)
StageRow(st, bitmap, j, byteWidth, lo, hi, fg_color_data, bg_color_data) ==
    IF ~(lo < hi) THEN st
    ELSE IF lo + 1 = hi
    THEN StagePixel(st, bitmap, j, byteWidth, lo, fg_color_data, bg_color_data)
    ELSE LET mid == (lo + hi) \div 2
             s1 == StageRow(st, bitmap, j, byteWidth, lo, mid, fg_color_data, bg_color_data)
         IN IF s1.byte < 0 THEN s1
            ELSE StageRow(s1, bitmap, j, byteWidth, mid, hi, fg_color_data, bg_color_data)

\* for (j = 0; j < h; j++, y++).  The body stores into spi_buffer and calls
\* hwspi._spi->write whatever the connection is and whatever w is.
\* On a software-SPI instance hwspi is not the member of the union the
\* constructor wrote and spi_buffer has not been allocated by it: the
\* behaviour is undefined, and `ub` is what the build makes of it: "fault"
\* (the first such access traps and the program stops there) or "ignored"
\* (the accesses have no visible effect).
\* On a hardware-SPI instance a row of more than SPI_BUFFER_SIZE / 2 pixels
\* is stored and read past the end of the buffer, undefined as well:
\* "fault" (the first store past the end traps) or "overrun" (the stores
\* land in the memory that follows the buffer and the transfer reads them
\* back from there).
RECURSIVE XBitmapRows(_, _, _, _, _, _, _, _, _, _, _, _)
XBitmapRows(m, x, y, bitmap, w, h, byteWidth, byte, fg_color_data, bg_color_data, j, ub) ==
    IF m.halted \/ ~(j < h) THEN m
    ELSE IF connection = TFT_HARD_SPI
    THEN IF (2 * w > SPI_BUFFER_SIZE) /\ ub = "fault"
         THEN [m EXCEPT !.halted = TRUE, !.undef = @ \cup {"overrun"},
                        !.buf = StageRow([buf |-> m.buf, byte |-> byte], bitmap, j,
                                         byteWidth, 0, SPI_BUFFER_SIZE \div 2,
                                         fg_color_data, bg_color_data).buf]
         ELSE LET past == IF 2 * w > SPI_BUFFER_SIZE
                          THEN [k \in 1..((2 * w) - SPI_BUFFER_SIZE) |-> 0]
                          ELSE <<>>
                  st == StageRow([buf |-> m.buf \o past, byte |-> byte], bitmap, j,
                                 byteWidth, 0, w, fg_color_data, bg_color_data)
                  mem == st.buf
                  m1 == [m EXCEPT !.buf = SubSeq(mem, 1, SPI_BUFFER_SIZE),
                                  !.undef = IF past = <<>> THEN @ ELSE @ \cup {"overrun"}]
                  m2 == setAddrWindow(m1, x, y, w, 1)
                  m3 == HwWrite(m2, SubSeq(mem, 1, 2 * w))
              IN XBitmapRows(m3, x, I16(y + 1), bitmap, w, h, byteWidth, st.byte,
                             fg_color_data, bg_color_data, I16(j + 1), ub)
    ELSE IF ub = "fault"
    THEN IF 0 < w THEN [m EXCEPT !.halted = TRUE, !.undef = @ \cup {"null"}]
         ELSE [setAddrWindow(m, x, y, w, 1) EXCEPT !.halted = TRUE,
                                                  !.undef = @ \cup {"union"}]
    ELSE XBitmapRows([setAddrWindow(m, x, y, w, 1) EXCEPT
                         !.undef = @ \cup (IF 0 < w THEN {"null", "union"} ELSE {"union"})],
                     x, I16(y + 1), bitmap, w, h,
                     byteWidth, byte, fg_color_data, bg_color_data, I16(j + 1), ub)

drawXBitmap(m, x, y, bitmap, w, h, fg_color, bg_color, ub) ==
    LET byteWidth == I16(CDiv(w + 7, 8))
        m1 == XBitmapRows(startWrite(m), x, y, bitmap, w, h, byteWidth, 0,
                          SWAP_BYTES(fg_color), SWAP_BYTES(bg_color), 0, ub)
    IN IF m1.halted THEN m1 ELSE endWrite(m1)

(* ------------------------------------------------------------------ *)
(* Miscellaneous                                                      *)
(* ------------------------------------------------------------------ *)
\* The operators & and | on non-negative ints, bit by bit
RECURSIVE BitAnd(_, _)
BitAnd(a, b) ==
    IF a = 0 \/ b = 0 THEN 0
    ELSE ((a % 2) * (b % 2)) + (2 * BitAnd(a \div 2, b \div 2))

RECURSIVE BitOr(_, _)
BitOr(a, b) ==
    IF a = 0 THEN b
    ELSE IF b = 0 THEN a
    ELSE (IF a % 2 = 1 \/ b % 2 = 1 THEN 1 ELSE 0) + (2 * BitOr(a \div 2, b \div 2))

\* color565 with green shifted by 2: C18 does not hold of it
color565GreenLow(red, green, blue) ==
    U16(BitOr(BitOr(BitAnd(red, 248) * 256, BitAnd(green, 252) * 4), blue \div 8))

\* return ((red & 0xF8) << 8) | ((green & 0xFC) << 3) | (blue >> 3);
\* computed in int, returned as uint16_t
color565(red, green, blue) ==
    U16(BitOr(BitOr(BitAnd(red, 248) * 256, BitAnd(green, 252) * 8), blue \div 8))

invertOnCommand == 0
invertOffCommand == 0

invertDisplay(m, i) ==
    endWrite(writeCommand(startWrite(m), IF i THEN invertOnCommand ELSE invertOffCommand))

\* `_cs >= 0` and `_rst >= 0` read the pins: 0 or 1
initSPI(m) ==
    LET m1 == IF m.cs >= 0 THEN SPI_CS_HIGH(m) ELSE m
        m2 == SPI_DC_HIGH(m1)
        m3 == IF connection = TFT_HARD_SPI
              THEN [m2 EXCEPT !.buf = [i \in 1..SPI_BUFFER_SIZE |-> 0],
                              !.allocs = @ + 1]
              ELSE IF connection = TFT_SOFT_SPI
              THEN SPI_SCK_LOW(SPI_MOSI_LOW(m2))
              ELSE m2
    IN IF m3.rst >= 0 THEN [m3 EXCEPT !.rst = HIGH] ELSE m3

(* ------------------------------------------------------------------ *)
(* Requests                                                           *)
(* ------------------------------------------------------------------ *)
Connections == {TFT_HARD_SPI, TFT_SOFT_SPI}
Levels == {LOW, HIGH}

\* 0xF800 (high byte # low byte) and 0x5555 (high byte = low byte)
Colors == {63488, 21845}

\* A call: its function and arguments.  w and h are the extents of the
\* rectangle asked for, so 1 where the function takes none (the height of a
\* horizontal line, the width of a vertical one, both for a pixel).
Request(op, x, y, w, h, color, data, bg, ub) ==
    [op |-> op, x |-> x, y |-> y, w |-> w, h |-> h, color |-> color,
     data |-> data, bg |-> bg, ub |-> ub]

NoRequest == Request("none", 0, 0, 0, 0, 0, <<>>, 0, "none")

SelfContained == {"drawPixel", "fillRect", "drawFastHLine", "drawFastVLine",
                  "pushColor", "drawRGBBitmap", "drawXBitmap", "invertDisplay"}
NotSelfContained == {"writePixel", "writePixels", "writeColor", "writeFillRect",
                     "writeFastHLine", "writeFastVLine", "writeFillRectPreclipped",
                     "writeCommand", "SPI_WRITE8", "SPI_WRITE16", "SPI_WRITE32"}

\* The member function a request names, applied to its arguments
Exec(m, r) ==
    CASE r.op = "initSPI" -> initSPI(m)
      [] r.op = "startWrite" -> startWrite(m)
      [] r.op = "endWrite" -> endWrite(m)
      [] r.op = "writePixel" -> writePixel(m, r.x, r.y, r.color)
      [] r.op = "writePixels" -> writePixels(m, r.data, 0, r.w)
      [] r.op = "writeColor" -> writeColor(m, r.color, r.w)
      [] r.op = "writeFillRect" -> writeFillRect(m, r.x, r.y, r.w, r.h, r.color)
      [] r.op = "writeFastHLine" -> writeFastHLine(m, r.x, r.y, r.w, r.color)
      [] r.op = "writeFastVLine" -> writeFastVLine(m, r.x, r.y, r.h, r.color)
      [] r.op = "writeFillRectPreclipped" ->
             writeFillRectPreclipped(m, r.x, r.y, r.w, r.h, r.color)
      [] r.op = "drawPixel" -> drawPixel(m, r.x, r.y, r.color)
      [] r.op = "fillRect" -> fillRect(m, r.x, r.y, r.w, r.h, r.color)
      [] r.op = "drawFastHLine" -> drawFastHLine(m, r.x, r.y, r.w, r.color)
      [] r.op = "drawFastVLine" -> drawFastVLine(m, r.x, r.y, r.h, r.color)
      [] r.op = "pushColor" -> pushColor(m, r.color)
      [] r.op = "drawRGBBitmap" -> drawRGBBitmap(m, r.x, r.y, r.data, r.w, r.h)
      [] r.op = "drawXBitmap" ->
             drawXBitmap(m, r.x, r.y, r.data, r.w, r.h, r.color, r.bg, r.ub)
      [] r.op = "invertDisplay" -> invertDisplay(m, r.bg = 1)
      [] r.op = "writeCommand" -> writeCommand(m, r.color)
      [] r.op = "SPI_WRITE8" -> SPI_WRITE8(m, r.color)
      [] r.op = "SPI_WRITE16" -> SPI_WRITE16(m, r.color)
      [] r.op = "SPI_WRITE32" -> SPI_WRITE32(m, r.color)
      [] r.op = "color565" -> [m EXCEPT !.ret = color565(r.x, r.y, r.w)]

\* The state after the call: the fields of the record become the variables
Apply(m, r) ==
    /\ connection' = connection
    /\ inited' = (inited \/ r.op = "initSPI")
    /\ cs' = m.cs
    /\ dc' = m.dc
    /\ rst' = m.rst
    /\ mosi' = m.mosi
    /\ sck' = m.sck
    /\ spi_buffer' = m.buf
    /\ allocs' = m.allocs
    /\ txn' = m.txn
    /\ halted' = m.halted
    /\ undef' = m.undef
    /\ log' = m.log
    /\ wave' = m.wave
    /\ ret' = m.ret
    /\ req' = r
    /\ starts' = starts + Count(m.log, "startWrite")
    /\ ends' = ends + Count(m.log, "endWrite")
    /\ nops' = nops + 1

\* One call of a member function.  Nothing but initSPI is called before
\* initSPI; each action below adds the side of the startWrite/endWrite
\* bracket its function is documented for.
Call(r) ==
    /\ ~halted
    /\ nops < MaxOps
    /\ r.op = "initSPI" \/ inited
    /\ Apply(Exec(Cur, r), r)

(* ------------------------------------------------------------------ *)
(* Inputs of Spec: a few requests of every kind (inside, clipped,     *)
(* negative extents, zero extent, off-canvas, far edge past 32767)    *)
(* ------------------------------------------------------------------ *)
Rects == {<<1, 1, 2, 2>>, <<-1, -1, 3, 3>>, <<CanvasW - 1, CanvasH - 1, -2, -2>>,
          <<0, 0, 0, 1>>, <<CanvasW, 0, 1, 1>>, <<2, 2, 32767, 32767>>}
PreclippedRects == {<<1, 1, 2, 2>>, <<0, 0, CanvasW, CanvasH>>}
Points == {<<0, 0>>, <<CanvasW - 1, CanvasH - 1>>, <<-1, 0>>, <<0, CanvasH>>}

\* a caller's array of n 16-bit pixels, every byte of it different
PixelArray(n) == [i \in 1..n |-> ((16 + i) * 256) + 128 + i]
RGBBitmaps == {[w |-> 2, h |-> 2, data |-> PixelArray(4)],
               [w |-> 3, h |-> 1, data |-> PixelArray(3)],
               [w |-> 0, h |-> 2, data |-> <<>>]}
RGBPositions == {<<-1, -1>>, <<1, 1>>, <<CanvasW, 0>>}
XBitmaps == {[w |-> 3, h |-> 2, data |-> <<5, 2>>],
             [w |-> 3, h |-> 0, data |-> <<>>]}
XPositions == {<<0, 0>>, <<1, 1>>}
ColorLens == {0, 2, 513}
UBOutcomes == IF connection = TFT_SOFT_SPI THEN {"fault", "ignored"} ELSE {"none"}

(* ------------------------------------------------------------------ *)
(* Actions                                                            *)
(* ------------------------------------------------------------------ *)
InitSPI ==
    /\ txn = "Idle"
    /\ Call(Request("initSPI", 0, 0, 0, 0, 0, <<>>, 0, "none"))

StartWrite ==
    /\ txn = "Idle"
    /\ Call(Request("startWrite", 0, 0, 0, 0, 0, <<>>, 0, "none"))

EndWrite ==
    /\ txn = "Active"
    /\ Call(Request("endWrite", 0, 0, 0, 0, 0, <<>>, 0, "none"))

WritePixel ==
    /\ txn = "Active"
    /\ \E p \in Points, c \in Colors :
            Call(Request("writePixel", p[1], p[2], 1, 1, c, <<>>, 0, "none"))

WritePixels ==
    /\ txn = "Active"
    /\ \E b \in RGBBitmaps, n \in {0, 1} :
            Call(Request("writePixels", 0, 0, n * Len(b.data), 0, 0, b.data, 0, "none"))

WriteColor ==
    /\ txn = "Active"
    /\ \E c \in Colors, n \in ColorLens :
            Call(Request("writeColor", 0, 0, n, 0, c, <<>>, 0, "none"))

WriteFillRect ==
    /\ txn = "Active"
    /\ \E r \in Rects, c \in Colors :
            Call(Request("writeFillRect", r[1], r[2], r[3], r[4], c, <<>>, 0, "none"))

WriteFastHLine ==
    /\ txn = "Active"
    /\ \E r \in Rects, c \in Colors :
            Call(Request("writeFastHLine", r[1], r[2], r[3], 1, c, <<>>, 0, "none"))

WriteFastVLine ==
    /\ txn = "Active"
    /\ \E r \in Rects, c \in Colors :
            Call(Request("writeFastVLine", r[1], r[2], 1, r[4], c, <<>>, 0, "none"))

WriteFillRectPreclipped ==
    /\ txn = "Active"
    /\ \E r \in PreclippedRects, c \in Colors :
            Call(Request("writeFillRectPreclipped", r[1], r[2], r[3], r[4], c, <<>>, 0, "none"))

DrawPixel ==
    /\ txn = "Idle"
    /\ \E p \in Points, c \in Colors :
            Call(Request("drawPixel", p[1], p[2], 1, 1, c, <<>>, 0, "none"))

FillRect ==
    /\ txn = "Idle"
    /\ \E r \in Rects, c \in Colors :
            Call(Request("fillRect", r[1], r[2], r[3], r[4], c, <<>>, 0, "none"))

DrawFastHLine ==
    /\ txn = "Idle"
    /\ \E r \in Rects, c \in Colors :
            Call(Request("drawFastHLine", r[1], r[2], r[3], 1, c, <<>>, 0, "none"))

DrawFastVLine ==
    /\ txn = "Idle"
    /\ \E r \in Rects, c \in Colors :
            Call(Request("drawFastVLine", r[1], r[2], 1, r[4], c, <<>>, 0, "none"))

PushColor ==
    /\ txn = "Idle"
    /\ \E c \in Colors : Call(Request("pushColor", 0, 0, 0, 0, c, <<>>, 0, "none"))

DrawRGBBitmap ==
    /\ txn = "Idle"
    /\ \E b \in RGBBitmaps, p \in RGBPositions :
            Call(Request("drawRGBBitmap", p[1], p[2], b.w, b.h, 0, b.data, 0, "none"))

DrawXBitmap ==
    /\ txn = "Idle"
    /\ \E b \in XBitmaps, p \in XPositions, ub \in UBOutcomes :
            Call(Request("drawXBitmap", p[1], p[2], b.w, b.h, 63488, b.data, 31, ub))

InvertDisplay ==
    /\ txn = "Idle"
    /\ \E i \in {0, 1} : Call(Request("invertDisplay", 0, 0, 0, 0, 0, <<>>, i, "none"))

WriteCommand ==
    /\ txn = "Active"
    /\ Call(Request("writeCommand", 0, 0, 0, 0, 44, <<>>, 0, "none"))

\* 0xA5, 0x80
SpiBytes == {165, 128}

\* 0x1234, 0x8001
SpiWords == {4660, 32769}

\* 0x87654321 (as the int of the same bits), 0x12345678
SpiLongs == {-2023406815, 305419896}

SpiWrite8 ==
    /\ txn = "Active"
    /\ \E b \in SpiBytes : Call(Request("SPI_WRITE8", 0, 0, 0, 0, b, <<>>, 0, "none"))

SpiWrite16 ==
    /\ txn = "Active"
    /\ \E w \in SpiWords : Call(Request("SPI_WRITE16", 0, 0, 0, 0, w, <<>>, 0, "none"))

SpiWrite32 ==
    /\ txn = "Active"
    /\ \E l \in SpiLongs : Call(Request("SPI_WRITE32", 0, 0, 0, 0, l, <<>>, 0, "none"))

(* ------------------------------------------------------------------ *)
(* Spec: any sequence of calls after construction                     *)
(* ------------------------------------------------------------------ *)
\* After construction no pin has been configured: the levels read from them
\* are whatever the board gives.  A hardware-SPI instance has no bit-bang
\* pins.  spi_buffer is a zero-initialised global pointer.
Init ==
    /\ connection \in Connections
    /\ inited = FALSE
    /\ cs \in Levels
    /\ dc \in Levels
    /\ rst \in Levels
    /\ mosi \in (IF connection = TFT_SOFT_SPI THEN Levels ELSE {LOW})
    /\ sck \in (IF connection = TFT_SOFT_SPI THEN Levels ELSE {LOW})
    /\ spi_buffer = <<>>
    /\ allocs = 0
    /\ txn = "Idle"
    /\ halted = FALSE
    /\ undef = {}
    /\ log = <<>>
    /\ wave = <<>>
    /\ ret = 0
    /\ req = NoRequest
    /\ starts = 0
    /\ ends = 0
    /\ nops = 0

Next ==
    \/ InitSPI
    \/ StartWrite
    \/ EndWrite
    \/ WritePixel
    \/ WritePixels
    \/ WriteColor
    \/ WriteFillRect
    \/ WriteFastHLine
    \/ WriteFastVLine
    \/ WriteFillRectPreclipped
    \/ DrawPixel
    \/ FillRect
    \/ DrawFastHLine
    \/ DrawFastVLine
    \/ PushColor
    \/ DrawRGBBitmap
    \/ DrawXBitmap
    \/ InvertDisplay
    \/ WriteCommand
    \/ SpiWrite8
    \/ SpiWrite16
    \/ SpiWrite32

Spec == Init /\ [][Next]_vars

(* ------------------------------------------------------------------ *)
(* SpecClip: one clipping call on an initialised display, its         *)
(* arguments drawn from the whole int16_t range                       *)
(* ------------------------------------------------------------------ *)
ClipXs == {-32768, -6, -5, -1, 0, 2, CanvasW - 1, CanvasW, 32767}
ClipYs == {-32768, -5, -1, 0, 2, CanvasH - 1, CanvasH, 32767}
ClipWs == {-32768, -7, -1, 0, 1, 3, 10, 32767}
ClipHs == {-32768, -6, -1, 0, 1, 2, 10, 32767}

ClipRequests ==
    {Request(op, x, y, w, h, 21845, <<>>, 0, "none") :
        op \in {"fillRect", "writeFillRect"}, x \in ClipXs, y \in ClipYs,
        w \in ClipWs, h \in ClipHs}
    \cup {Request(op, x, y, w, 1, 63488, <<>>, 0, "none") :
        op \in {"drawFastHLine", "writeFastHLine"}, x \in ClipXs, y \in ClipYs,
        w \in ClipWs}
    \cup {Request(op, x, y, 1, h, 63488, <<>>, 0, "none") :
        op \in {"drawFastVLine", "writeFastVLine"}, x \in ClipXs, y \in ClipYs,
        h \in ClipHs}
    \cup {Request(op, x, y, 1, 1, c, <<>>, 0, "none") :
        op \in {"drawPixel", "writePixel"}, x \in ClipXs, y \in ClipYs, c \in Colors}

\* The display after initSPI, inside startWrite for the write* functions
\* and outside it for the others, the buffer as initSPI or an earlier fill
\* left it, and the call that is about to be made in req.
InitClip ==
    /\ connection \in Connections
    /\ inited = TRUE
    /\ req \in ClipRequests
    /\ txn = (IF req.op \in NotSelfContained THEN "Active" ELSE "Idle")
    /\ cs = (IF txn = "Active" THEN LOW ELSE HIGH)
    /\ dc = HIGH
    /\ rst = HIGH
    /\ mosi = LOW
    /\ sck = LOW
    /\ spi_buffer \in (IF connection = TFT_HARD_SPI
                       THEN {[i \in 1..SPI_BUFFER_SIZE |-> 0], StageColor(63488)}
                       ELSE {<<>>})
    /\ allocs = (IF connection = TFT_HARD_SPI THEN 1 ELSE 0)
    /\ halted = FALSE
    /\ undef = {}
    /\ log = <<>>
    /\ wave = <<>>
    /\ ret = 0
    /\ starts = (IF txn = "Active" THEN 1 ELSE 0)
    /\ ends = 0
    /\ nops = 0

ClipFillRect ==
    /\ nops = 0
    /\ req.op = "fillRect"
    /\ Call(req)

ClipWriteFillRect ==
    /\ nops = 0
    /\ req.op = "writeFillRect"
    /\ Call(req)

ClipDrawFastHLine ==
    /\ nops = 0
    /\ req.op = "drawFastHLine"
    /\ Call(req)

ClipWriteFastHLine ==
    /\ nops = 0
    /\ req.op = "writeFastHLine"
    /\ Call(req)

ClipDrawFastVLine ==
    /\ nops = 0
    /\ req.op = "drawFastVLine"
    /\ Call(req)

ClipWriteFastVLine ==
    /\ nops = 0
    /\ req.op = "writeFastVLine"
    /\ Call(req)

ClipDrawPixel ==
    /\ nops = 0
    /\ req.op = "drawPixel"
    /\ Call(req)

ClipWritePixel ==
    /\ nops = 0
    /\ req.op = "writePixel"
    /\ Call(req)

NextClip ==
    \/ ClipFillRect
    \/ ClipWriteFillRect
    \/ ClipDrawFastHLine
    \/ ClipWriteFastHLine
    \/ ClipDrawFastVLine
    \/ ClipWriteFastVLine
    \/ ClipDrawPixel
    \/ ClipWritePixel

SpecClip == InitClip /\ [][NextClip]_vars

(* ------------------------------------------------------------------ *)
(* What a request asks for, in unbounded integers                     *)
(* ------------------------------------------------------------------ *)
Max(a, b) == IF a > b THEN a ELSE b

\* The first and the last coordinate covered from origin a with the signed
\* extent e # 0: a negative extent grows toward the origin of the axis.
NearEdge(a, e) == IF e > 0 THEN a ELSE a + e + 1
FarEdge(a, e) == IF e > 0 THEN a + e - 1 ELSE a

\* The intersection of the requested rectangle with the canvas
InterX1(r) == Max(NearEdge(r.x, r.w), 0)
InterX2(r) == Min(FarEdge(r.x, r.w), _width - 1)
InterY1(r) == Max(NearEdge(r.y, r.h), 0)
InterY2(r) == Min(FarEdge(r.y, r.h), _height - 1)

\* The request covers at least one pixel of the canvas
OnCanvas(r) ==
    /\ r.w # 0
    /\ r.h # 0
    /\ InterX1(r) <= InterX2(r)
    /\ InterY1(r) <= InterY2(r)

\* The arguments of the setAddrWindow calls of a log, in order
RECURSIVE Windows(_)
Windows(l) ==
    IF l = <<>> THEN <<>>
    ELSE (IF l[1].ev = "setAddrWindow" THEN <<l[1].args>> ELSE <<>>) \o Windows(Tail(l))

\* The number of bytes a log puts on the bus
RECURSIVE BusBytes(_)
BusBytes(l) ==
    IF l = <<>> THEN 0
    ELSE (CASE l[1].ev = "spi" -> Len(l[1].args)
            [] l[1].ev = "clk" -> Len(l[1].args) \div 8
            [] OTHER -> 0) + BusBytes(Tail(l))

DrawClipOps == {"fillRect", "drawFastHLine", "drawFastVLine", "drawPixel"}
WriteClipOps == {"writeFillRect", "writeFastHLine", "writeFastVLine", "writePixel"}

(* ------------------------------------------------------------------ *)
(* Clipping                                                           *)
(* ------------------------------------------------------------------ *)
\* C1: a fillRect, drawFastHLine, drawFastVLine or drawPixel whose width or
\* height is zero, or whose pixels (negative extents growing toward the
\* origin) all lie off the canvas, calls neither startWrite nor endWrite nor
\* setAddrWindow, writes nothing to the bus, and leaves chip-select,
\* data/command and the scratch buffer as they were.
C1_RejectedIsSilent ==
    [][(req.op \in DrawClipOps /\ ~OnCanvas(req))
        => /\ log' = <<>>
           /\ cs' = cs
           /\ dc' = dc
           /\ spi_buffer' = spi_buffer
           /\ txn' = txn
           /\ starts' = starts
           /\ ends' = ends]_vars

C1_Witness ==
    /\ nops = 1
    /\ req.op = "fillRect"
    /\ req.x = -6
    /\ req.w = 3
    /\ req.h = -6
    /\ ~OnCanvas(req)
    /\ log = <<>>
    /\ txn = "Idle"
    /\ spi_buffer = StageColor(63488)

\* C2: every setAddrWindow(x, y, w, h) made by fillRect, writeFillRect,
\* drawFastHLine, writeFastHLine, drawFastVLine, writeFastVLine, drawPixel or
\* writePixel, whatever int16_t arguments they are given, has x >= 0, y >= 0,
\* w > 0, h > 0, x + w <= _width and y + h <= _height.
C2_WindowOnCanvas ==
    (req.op \in DrawClipOps \cup WriteClipOps)
        => \A i \in DOMAIN log :
              log[i].ev = "setAddrWindow"
                  => LET a == log[i].args
                     IN /\ a[1] >= 0
                        /\ a[2] >= 0
                        /\ a[3] > 0
                        /\ a[4] > 0
                        /\ a[1] + a[3] <= _width
                        /\ a[2] + a[4] <= _height

C2_Witness ==
    /\ req.op = "writeFillRect"
    /\ req.x = CanvasW - 1
    /\ req.w = -32768
    /\ req.y = -1
    /\ req.h = 2
    /\ Windows(log) = <<<<0, 0, CanvasW, 1>>>>

\* The value is one an int16_t variable can hold
Fits16(v) == (v >= -32768) /\ (v <= 32767)

\* The one window a request must set: its intersection with the canvas
Intersection(r) ==
    <<InterX1(r), InterY1(r), InterX2(r) - InterX1(r) + 1, InterY2(r) - InterY1(r) + 1>>

\* C3: a fillRect, drawFastHLine or drawFastVLine that overlaps the canvas,
\* with x + w - 1 and y + h - 1 fitting in 16 bits, sets exactly one window,
\* the intersection of the requested rectangle with the canvas; fillRect at
\* (-5, -5) of 10 x 10 gives the window (0, 0, 5, 5), and a horizontal line
\* that starts on the canvas at x and runs past the right edge gets the
\* width _width - x.
C3_WindowIsIntersection ==
    (nops = 1 /\ req.op \in {"fillRect", "drawFastHLine", "drawFastVLine"})
        => /\ (OnCanvas(req) /\ Fits16(req.x + req.w - 1) /\ Fits16(req.y + req.h - 1))
                => Windows(log) = <<Intersection(req)>>
           /\ (req.op = "fillRect" /\ <<req.x, req.y, req.w, req.h>> = <<-5, -5, 10, 10>>)
                => Windows(log) = <<<<0, 0, 5, 5>>>>
           /\ (/\ req.op = "drawFastHLine"
               /\ req.x >= 0 /\ req.x < _width /\ req.y >= 0 /\ req.y < _height
               /\ req.w > 0 /\ req.x + req.w > _width
               /\ Fits16(req.x + req.w - 1))
                => (Len(Windows(log)) = 1 /\ Windows(log)[1][3] = _width - req.x)

C3_Witness ==
    /\ nops = 1
    /\ req.op = "fillRect"
    /\ <<req.x, req.y, req.w, req.h>> = <<-5, -5, 10, 10>>
    /\ Windows(log) = <<<<0, 0, 5, 5>>>>

\* C4: for a rectangle with w > 0 and h > 0 that lies inside the canvas,
\* fillRect and writeFillRect call setAddrWindow once, with (x, y, w, h)
\* unchanged, and write exactly w * h pixels (two bytes each).
C4_InsideIsUnchanged ==
    (/\ nops = 1
     /\ req.op \in {"fillRect", "writeFillRect"}
     /\ req.w > 0 /\ req.h > 0 /\ req.x >= 0 /\ req.y >= 0
     /\ req.x + req.w <= _width /\ req.y + req.h <= _height)
        => /\ Windows(log) = <<<<req.x, req.y, req.w, req.h>>>>
           /\ BusBytes(log) = 2 * req.w * req.h

C4_Witness ==
    /\ nops = 1
    /\ req.op = "writeFillRect"
    /\ <<req.x, req.y, req.w, req.h>> = <<2, 2, 3, 2>>
    /\ Windows(log) = <<<<2, 2, 3, 2>>>>
    /\ BusBytes(log) = 12

\* The request for the same pixels with positive extents
Normalised(r) ==
    [r EXCEPT !.x = IF r.w < 0 THEN r.x + r.w + 1 ELSE r.x,
              !.w = IF r.w < 0 THEN -r.w ELSE r.w,
              !.y = IF r.h < 0 THEN r.y + r.h + 1 ELSE r.y,
              !.h = IF r.h < 0 THEN -r.h ELSE r.h]

\* C5: a fillRect or writeFillRect with a negative width and/or height does
\* exactly what the request for the same pixels with positive extents does
\* (the same window, the same bytes on the bus, or the same rejection):
\* fillRect(x, y, w, h) with w < 0 is fillRect(x + w + 1, y, -w, h), and
\* likewise for h < 0; the same for the width of the horizontal lines and
\* the height of the vertical lines.  The positive-extent request must be
\* one that can be made, its arguments int16_t values.
C5_NegativeExtentIsMirror ==
    [][(/\ req.op \in {"fillRect", "writeFillRect", "drawFastHLine", "writeFastHLine",
                       "drawFastVLine", "writeFastVLine"}
        /\ (req.w < 0 \/ req.h < 0)
        /\ Fits16(Normalised(req).x) /\ Fits16(Normalised(req).w)
        /\ Fits16(Normalised(req).y) /\ Fits16(Normalised(req).h))
        => LET n == Exec(Cur, Normalised(req))
           IN /\ log' = n.log
              /\ spi_buffer' = n.buf
              /\ cs' = n.cs
              /\ dc' = n.dc
              /\ mosi' = n.mosi
              /\ sck' = n.sck
              /\ txn' = n.txn]_vars

C5_Witness ==
    /\ nops = 1
    /\ req.op = "fillRect"
    /\ <<req.x, req.y, req.w, req.h>> = <<CanvasW - 1, 2, -7, -1>>
    /\ Windows(log) = <<<<0, 2, CanvasW, 1>>>>
    /\ BusBytes(log) = 2 * CanvasW

\* C6: for w > 0 and h > 0, fillRect rejects only a rectangle
\* [x, x + w - 1] x [y, y + h - 1] that has no pixel on the canvas; one that
\* starts on the canvas and whose far edge lies beyond 32767 is drawn,
\* clipped to the canvas.
C6_RejectsOnlyOffCanvas ==
    (nops = 1 /\ req.op = "fillRect" /\ req.w > 0 /\ req.h > 0 /\ OnCanvas(req))
        => (Windows(log) = <<Intersection(req)>> /\ starts = 1 /\ ends = 1)

(* ------------------------------------------------------------------ *)
(* Event sequences                                                    *)
(* ------------------------------------------------------------------ *)
BusEvents == {"spi", "clk"}

\* C7: an accepted fillRect, drawFastHLine or drawFastVLine produces
\* startWrite, then one setAddrWindow for the clipped rectangle, then one
\* color run of (clipped width * clipped height) pixels, then endWrite, and
\* nothing else: no second window and no second run.
C7_OneWindowOneRun ==
    (nops = 1 /\ req.op \in {"fillRect", "drawFastHLine", "drawFastVLine"} /\ log # <<>>)
        => LET n == Len(log)
               a == log[2].args
           IN /\ n >= 5
              /\ log[1].ev = "startWrite"
              /\ log[2].ev = "setAddrWindow"
              /\ a = Intersection(req)
              /\ log[3].ev = "writeColor"
              /\ log[3].args = <<req.color, a[3] * a[4]>>
              /\ \A i \in 4..(n - 1) : log[i].ev \in BusEvents
              /\ BusBytes(log) = 2 * a[3] * a[4]
              /\ log[n].ev = "endWrite"

C7_Witness ==
    /\ nops = 1
    /\ req.op = "drawFastHLine"
    /\ <<req.x, req.y, req.w>> = <<2, 2, 10>>
    /\ Len(log) >= 5
    /\ log[2].args = <<2, 2, CanvasW - 2, 1>>
    /\ log[3].args = <<req.color, CanvasW - 2>>
    /\ log[Len(log)].ev = "endWrite"

(* ------------------------------------------------------------------ *)
(* The startWrite / endWrite bracket and the control lines            *)
(* ------------------------------------------------------------------ *)
\* No startWrite and no endWrite, or one startWrite first and one endWrite
\* last
Bracketed(l) ==
    \/ Count(l, "startWrite") = 0 /\ Count(l, "endWrite") = 0
    \/ /\ Count(l, "startWrite") = 1
       /\ Count(l, "endWrite") = 1
       /\ l[1].ev = "startWrite"
       /\ l[Len(l)].ev = "endWrite"

\* C8: after a self-contained operation (drawPixel, fillRect, drawFastHLine,
\* drawFastVLine, pushColor, drawRGBBitmap, drawXBitmap, invertDisplay)
\* started outside a transaction, the transaction state is Idle and as many
\* endWrite as startWrite calls have been made; the operation made none of
\* either, or one startWrite followed later by one endWrite; and drawPixel,
\* fillRect, drawFastHLine and drawFastVLine open a transaction only for a
\* request with a pixel on the canvas.
C8_SelfContainedIsBracketed ==
    (nops >= 1 /\ req.op \in SelfContained)
        => /\ txn = "Idle"
           /\ starts = ends
           /\ Bracketed(log)
           /\ (req.op \in DrawClipOps /\ Count(log, "startWrite") > 0) => OnCanvas(req)

\* C9: once initSPI has run, chip-select is low exactly while a transaction
\* is open: startWrite drives it low, endWrite drives it high, the
\* functions called inside or outside the bracket leave it alone, and
\* every bus write of a self-contained operation is made with chip-select
\* low.
C9_ChipSelectFollowsBracket ==
    [][inited'
        => /\ (cs' = LOW) <=> (txn' = "Active")
           /\ (req'.op = "startWrite") => (cs' = LOW)
           /\ (req'.op = "endWrite") => (cs' = HIGH)
           /\ (inited /\ req'.op \in NotSelfContained \cup {"initSPI"}) => (cs' = cs)
           /\ \A i \in DOMAIN log' :
                 /\ (log'[i].ev = "startWrite") => (log'[i].cs = LOW)
                 /\ (log'[i].ev = "endWrite") => (log'[i].cs = HIGH)
                 /\ (req'.op \in SelfContained /\ log'[i].ev \in BusEvents)
                        => (log'[i].cs = LOW)]_vars

C9_Witness ==
    /\ inited
    /\ req.op = "pushColor"
    /\ cs = HIGH
    /\ txn = "Idle"
    /\ \E i \in DOMAIN log : log[i].ev \in BusEvents /\ log[i].cs = LOW

\* The operations that send a command byte
CommandOps == {"writeCommand", "invertDisplay"}

\* C10: writeCommand sends its byte with data/command low and leaves the
\* line high; after initSPI the line is high whenever no operation is
\* running; so every byte of the drawing operations goes out with
\* data/command high, and the only byte that goes out with it low is the
\* one writeCommand sends.
C10_DataCommandLine ==
    inited
        => /\ dc = HIGH
           /\ (req.op \in CommandOps)
                => /\ Cardinality({i \in DOMAIN log : log[i].ev \in BusEvents}) = 1
                   /\ \A i \in DOMAIN log : (log[i].ev \in BusEvents) => (log[i].dc = LOW)
           /\ (req.op \notin CommandOps)
                => \A i \in DOMAIN log : (log[i].ev \in BusEvents) => (log[i].dc = HIGH)

C10_Witness ==
    /\ inited
    /\ req.op = "invertDisplay"
    /\ dc = HIGH
    /\ \E i \in DOMAIN log : log[i].ev \in BusEvents /\ log[i].dc = LOW

(* ------------------------------------------------------------------ *)
(* SpecData: one data-path call on an initialised display, with       *)
(* pixel counts on both sides of the buffer capacity                  *)
(* ------------------------------------------------------------------ *)
\* Pixel counts for writeColor: none, less than one buffer, exactly one
\* and two buffers, one pixel more, and 2^30, whose byte count 2^31 does
\* not fit in an int.  The software-SPI loop runs once per pixel, so only
\* the short runs are enumerated for it.
RunLens ==
    IF connection = TFT_HARD_SPI
    THEN {0, 1, 2, 511, 512, 513, 1024, 1025, 1073741824}
    ELSE {0, 1, 2, 513}

\* Array lengths for writePixels, on both sides of the 512 pixels one
\* buffer holds
ArrayLens ==
    IF connection = TFT_HARD_SPI THEN {0, 1, 3, 511, 512, 513, 1025} ELSE {0, 1, 3, 513}

\* a caller's array of n uint16_t, no two elements equal, and in most of
\* them the high byte different from the low byte
LongArray(n) == [i \in 1..n |-> ((i * 131) + 7) % 65536]

\* 0x1234, 0x8001, 0xF800, 0x5555, 0xFFFF, 0
Words == {4660, 32769, 63488, 21845, 65535, 0}

\* values of a uint8_t colour channel: both ends, and values either side
\* of the bits that are dropped
Channels == {0, 3, 4, 7, 8, 129, 255}

\* What a build makes of the undefined accesses of drawXBitmap for a row of
\* w pixels
Outcomes(w) ==
    IF connection = TFT_SOFT_SPI THEN {"fault", "ignored"}
    ELSE IF 2 * w > SPI_BUFFER_SIZE THEN {"fault", "overrun"}
    ELSE {"none"}

\* one byte per 8 columns of a row of an XBM bitmap
XRow(n) == [k \in 1..n |-> ((k * 37) + 5) % 256]

\* drawXBitmap calls: 3 x 2; 10 x 2 (two bytes a row); 9 x 1 placed off the
\* canvas; one row of 512 pixels, which fills the buffer; one row of 513
XCalls == {[x |-> 0, y |-> 0, w |-> 3, h |-> 2, data |-> <<5, 2>>],
           [x |-> 1, y |-> 1, w |-> 10, h |-> 2, data |-> <<165, 1, 60, 2>>],
           [x |-> -2, y |-> CanvasH, w |-> 9, h |-> 1, data |-> <<129, 1>>],
           [x |-> 0, y |-> 0, w |-> 512, h |-> 1, data |-> XRow(64)],
           [x |-> 0, y |-> 0, w |-> 513, h |-> 1, data |-> XRow(65)]}

\* drawRGBBitmap calls <<x, y, w, h>>: the source wider and taller than the
\* canvas and shifted left; clipped on all four sides; inside; clipped
\* right and bottom; off-canvas; all rows but the last above the canvas;
\* a source that starts on the canvas with its right edge beyond 32767
BitmapCalls == {<<-3, 0, 10, 10>>, <<-1, -1, 8, 7>>, <<1, 1, 3, 3>>, <<4, 3, 3, 3>>,
                <<-2, -2, 2, 2>>, <<0, -9, 2, 10>>, <<2, 0, 32767, 1>>}

\* A writePixels request carries the caller's array in data, its length in
\* w and the bigEndian argument in bg (1 for true); a color565 request
\* carries red, green and blue in x, y and w.
DataRequests ==
    {Request("writeColor", 0, 0, n, 0, c, <<>>, 0, "none") : n \in RunLens, c \in Colors}
    \cup {Request("writeFillRectPreclipped", r[1], r[2], r[3], r[4], c, <<>>, 0, "none") :
            r \in PreclippedRects, c \in Colors}
    \cup {Request("writePixels", 0, 0, n, 0, 0, LongArray(n), be, "none") :
            n \in ArrayLens, be \in {0, 1}}
    \cup {Request("SPI_WRITE16", 0, 0, 0, 0, v, <<>>, 0, "none") : v \in Words}
    \cup {Request("color565", r, g, b, 0, 0, <<>>, 0, "none") :
            r \in Channels, g \in Channels, b \in Channels}
    \cup {Request("drawRGBBitmap", b[1], b[2], b[3], b[4], 0, LongArray(b[3] * b[4]), 0, "none") :
            b \in BitmapCalls}
    \cup UNION {{Request("drawXBitmap", b.x, b.y, b.w, b.h, 63488, b.data, 31, ub) :
                    ub \in Outcomes(b.w)} : b \in XCalls}

\* The display after initSPI, inside startWrite for the functions that
\* need it, the buffer as initSPI or an earlier fill left it, and the call
\* that is about to be made in req.
InitData ==
    /\ connection \in Connections
    /\ inited = TRUE
    /\ req \in DataRequests
    /\ txn = (IF req.op \in NotSelfContained THEN "Active" ELSE "Idle")
    /\ cs = (IF txn = "Active" THEN LOW ELSE HIGH)
    /\ dc = HIGH
    /\ rst = HIGH
    /\ mosi = LOW
    /\ sck = LOW
    /\ spi_buffer \in (IF connection = TFT_HARD_SPI
                       THEN {[i \in 1..SPI_BUFFER_SIZE |-> 0], StageColor(4660)}
                       ELSE {<<>>})
    /\ allocs = (IF connection = TFT_HARD_SPI THEN 1 ELSE 0)
    /\ halted = FALSE
    /\ undef = {}
    /\ log = <<>>
    /\ wave = <<>>
    /\ ret = 0
    /\ starts = (IF txn = "Active" THEN 1 ELSE 0)
    /\ ends = 0
    /\ nops = 0

DataWriteColor ==
    /\ nops = 0
    /\ req.op = "writeColor"
    /\ Call(req)

DataWriteFillRectPreclipped ==
    /\ nops = 0
    /\ req.op = "writeFillRectPreclipped"
    /\ Call(req)

DataWritePixels ==
    /\ nops = 0
    /\ req.op = "writePixels"
    /\ Call(req)

DataSpiWrite16 ==
    /\ nops = 0
    /\ req.op = "SPI_WRITE16"
    /\ Call(req)

DataColor565 ==
    /\ nops = 0
    /\ req.op = "color565"
    /\ Call(req)

DataDrawRGBBitmap ==
    /\ nops = 0
    /\ req.op = "drawRGBBitmap"
    /\ Call(req)

DataDrawXBitmap ==
    /\ nops = 0
    /\ req.op = "drawXBitmap"
    /\ Call(req)

NextData ==
    \/ DataWriteColor
    \/ DataWriteFillRectPreclipped
    \/ DataWritePixels
    \/ DataSpiWrite16
    \/ DataColor565
    \/ DataDrawRGBBitmap
    \/ DataDrawXBitmap

SpecData == InitData /\ [][NextData]_vars

(* ------------------------------------------------------------------ *)
(* Block transfers and the scratch buffer                             *)
(* ------------------------------------------------------------------ *)
\* The byte sequences handed to the SPI peripheral, one per transfer
Transfers(l) == [i \in 1..Count(l, "spi") |-> SelectSeq(l, LAMBDA e : e.ev = "spi")[i].args]

\* The buffer holding a color in wire order in every 16-bit slot: the high
\* byte at the even offsets 0, 2, ... and the low byte at the odd ones
WirePattern(color) ==
    [i \in 1..SPI_BUFFER_SIZE |-> IF i % 2 = 1 THEN highByte(color) ELSE lowByte(color)]

\* The size of transfer k (from 1) of a run of n pixels: min(2n - (k-1) *
\* capacity, capacity), written so that 2n itself is never formed
ChunkSize(n, k) ==
    LET left == n - ((k - 1) * (SPI_BUFFER_SIZE \div 2))
    IN IF left >= SPI_BUFFER_SIZE \div 2 THEN SPI_BUFFER_SIZE ELSE 2 * left

\* C11: on hardware SPI, writeColor(color, n) stages the buffer once and
\* then makes exactly ceil(2n / SPI_BUFFER_SIZE) transfers, transfer k of
\* min(2n - k * SPI_BUFFER_SIZE, SPI_BUFFER_SIZE) bytes (k from 0), each of
\* them the staged buffer unmodified; for n = 0 it makes no transfer and
\* leaves the buffer as it was.
C11_ChunkedColorRun ==
    [][(connection = TFT_HARD_SPI /\ req'.op = "writeColor")
        => LET n == req'.w
               t == Transfers(log')
           IN /\ Len(t) = (n + ((SPI_BUFFER_SIZE \div 2) - 1)) \div (SPI_BUFFER_SIZE \div 2)
              /\ \A k \in 1..Len(t) :
                    t[k] = SubSeq(WirePattern(req'.color), 1, ChunkSize(n, k))
              /\ (n = 0) => (spi_buffer' = spi_buffer)
              /\ (n # 0) => (spi_buffer' = WirePattern(req'.color))]_vars

\* C12: for any pixel count n of the uint32_t parameter, the transfers of
\* one hardware-SPI writeColor or writePixels call add up to exactly 2n
\* bytes (n pixels of two bytes) and none is larger than SPI_BUFFER_SIZE.
C12_TransfersSumToTwiceN ==
    (nops = 1 /\ connection = TFT_HARD_SPI /\ req.op \in {"writeColor", "writePixels"})
        => /\ BusBytes(log) % 2 = 0
           /\ BusBytes(log) \div 2 = req.w
           /\ \A k \in 1..Len(Transfers(log)) : Len(Transfers(log)[k]) <= SPI_BUFFER_SIZE

\* The pixel count of a run
RunCount(r) == IF r.op = "writeColor" THEN r.w ELSE r.w * r.h

\* C14: after a hardware-SPI writeFillRectPreclipped or writeColor with a
\* count other than zero, the whole buffer holds the staged pattern: if the
\* high byte of the color equals its low byte, every byte of the buffer is
\* that byte; otherwise every byte at an even offset is the high byte and
\* every byte at an odd offset the low byte.
C14_BufferHoldsPattern ==
    (/\ nops = 1
     /\ connection = TFT_HARD_SPI
     /\ req.op \in {"writeColor", "writeFillRectPreclipped"}
     /\ RunCount(req) # 0)
        => LET hi == (req.color \div 256) % 256
               lo == req.color % 256
           IN /\ Len(spi_buffer) = SPI_BUFFER_SIZE
              /\ (hi = lo) => \A i \in 1..SPI_BUFFER_SIZE : spi_buffer[i] = hi
              /\ (hi # lo) => \A i \in 0..(SPI_BUFFER_SIZE - 1) :
                                 spi_buffer[i + 1] = (IF i % 2 = 0 THEN hi ELSE lo)

C14_Witness ==
    /\ nops = 1
    /\ connection = TFT_HARD_SPI
    /\ req.op = "writeFillRectPreclipped"
    /\ req.color = 63488
    /\ spi_buffer[1] = 248
    /\ spi_buffer[2] = 0
    /\ spi_buffer[SPI_BUFFER_SIZE] = 0
    /\ spi_buffer[SPI_BUFFER_SIZE - 1] = 248

(* ------------------------------------------------------------------ *)
(* Data streams                                                       *)
(* ------------------------------------------------------------------ *)
\* The bytes of the transfers of a log, one transfer after the other
RECURSIVE Concat(_)
Concat(seqs) == IF seqs = <<>> THEN <<>> ELSE seqs[1] \o Concat(Tail(seqs))

HwBytes(l) == Concat(Transfers(l))

\* The bit sequences clocked out by the bit-bang loops of a log, one per
\* loop
Clocked(l) == [i \in 1..Count(l, "clk") |-> SelectSeq(l, LAMBDA e : e.ev = "clk")[i].args]

Pow2(k) == 2 ^ k

\* The n low bits of v, most significant first
BitsOf(v, n) == [k \in 1..n |-> (v \div Pow2(n - k)) % 2]

\* C13: on hardware SPI, writePixels(colors, n) transmits, over all its
\* transfers together, exactly high(colors[0]), low(colors[0]), ...,
\* high(colors[n-1]), low(colors[n-1]): every element once and in order,
\* none skipped or repeated where one transfer ends and the next begins,
\* and no byte left in the buffer from before; on software SPI it makes one
\* 16-bit write per element, in the same order.
C13_PixelsInOrder ==
    (nops = 1 /\ req.op = "writePixels")
        => LET d == req.data
               n == req.w
           IN IF connection = TFT_HARD_SPI
              THEN /\ HwBytes(log) = [j \in 1..(2 * n) |->
                                         IF j % 2 = 1 THEN (d[(j + 1) \div 2] \div 256) % 256
                                                      ELSE d[j \div 2] % 256]
                   /\ Count(log, "clk") = 0
              ELSE /\ Clocked(log) = [i \in 1..n |-> BitsOf(d[i], 16)]
                   /\ Count(log, "spi") = 0

C13_Witness ==
    /\ nops = 1
    /\ req.op = "writePixels"
    /\ connection = TFT_HARD_SPI
    /\ req.w = 513
    /\ spi_buffer[1] = (req.data[513] \div 256) % 256
    /\ Len(Transfers(log)) = 2
    /\ Transfers(log)[2] = <<(req.data[513] \div 256) % 256, req.data[513] % 256>>

\* The data stream of a log, pixel by pixel: the 16 bits of each pixel in
\* the order they go out on MOSI.  The SPI peripheral sends the bytes it is
\* given in order, each most significant bit first (the 8-bit mode 0 frames
\* of hwspi._bits and hwspi._mode).
PixelStream(l) ==
    IF connection = TFT_HARD_SPI
    THEN LET b == HwBytes(l)
         IN [i \in 1..(Len(b) \div 2) |-> BitsOf(b[(2 * i) - 1], 8) \o BitsOf(b[2 * i], 8)]
    ELSE Clocked(l)

\* The number of pixels a call is asked to send, and the i-th of them
PixelCount(r) == IF r.op = "SPI_WRITE16" THEN 1 ELSE r.w
PixelAt(r, i) == IF r.op = "writePixels" THEN r.data[i] ELSE r.color

\* C15: for every 16-bit pixel value and every count, SPI_WRITE16,
\* writeColor and writePixels put the same bits on the wire on hardware and
\* on software SPI: per pixel the 16 bits most significant first (high byte,
\* then low byte), so that the two backends given the same calls produce
\* the same data stream.
C15_SameStreamOnBothBackends ==
    (nops = 1 /\ req.op \in {"SPI_WRITE16", "writeColor", "writePixels"})
        => /\ Len(PixelStream(log)) = PixelCount(req)
           /\ \A i \in 1..Len(PixelStream(log)) :
                 PixelStream(log)[i] = BitsOf(PixelAt(req, i), 16)

\* The bytes of an array of uint16_t as they lie in memory (little-endian)
MemoryBytes(d) ==
    [j \in 1..(2 * Len(d)) |-> IF j % 2 = 1 THEN d[(j + 1) \div 2] % 256
                                            ELSE (d[j \div 2] \div 256) % 256]

\* The bytes of an array of uint16_t, high byte of each element first
HighFirstBytes(d) ==
    [j \in 1..(2 * Len(d)) |-> IF j % 2 = 1 THEN (d[(j + 1) \div 2] \div 256) % 256
                                            ELSE d[j \div 2] % 256]

\* C16: on hardware SPI, writePixels swaps the bytes only of a source that
\* is not in wire order already: with bigEndian = false every element goes
\* out high byte first, with bigEndian = true the two bytes of every
\* element go out in the order they have in the caller's array, unswapped.
C16_BigEndianIsNotSwapped ==
    (nops = 1 /\ connection = TFT_HARD_SPI /\ req.op = "writePixels")
        => /\ (req.bg = 0) => (HwBytes(log) = HighFirstBytes(req.data))
           /\ (req.bg = 1) => (HwBytes(log) = MemoryBytes(req.data))

\* The 32 bits of a uint32_t held as the int of the same bits, top bit first
BitsOf32(l) == BitsOf((l \div 65536) % 65536, 16) \o BitsOf(l % 65536, 16)

\* The number of bits of a bit-banged write and the bits of its value
WordBits(r) ==
    IF r.op = "SPI_WRITE8" THEN BitsOf(r.color % 256, 8)
    ELSE IF r.op = "SPI_WRITE16" THEN BitsOf(r.color % 65536, 16)
    ELSE BitsOf32(r.color)

\* The samples of a wave at which SCK has just risen; SCK is low before
\* the first sample
RisingEdges(w) ==
    {i \in 1..Len(w) : w[i][2] = HIGH /\ (i = 1 \/ w[i - 1][2] = LOW)}

\* C17: on software SPI, SPI_WRITE8, SPI_WRITE16 and SPI_WRITE32 make
\* exactly 8, 16 and 32 clock pulses; ahead of the k-th rising edge of the
\* clock the data-out line holds bit k of the value counted from the most
\* significant bit, the data-out line does not change while the clock is
\* high, and the clock is low when the call returns, as it is between any
\* two operations after initSPI.
C17_BitBangWaveform ==
    /\ (connection = TFT_SOFT_SPI /\ inited) => sck = LOW
    /\ (/\ connection = TFT_SOFT_SPI
        /\ nops > 0
        /\ req.op \in {"SPI_WRITE8", "SPI_WRITE16", "SPI_WRITE32"})
        => LET bits == WordBits(req)
               falling == {i \in 2..Len(wave) : wave[i][2] = LOW /\ wave[i - 1][2] = HIGH}
           IN /\ Cardinality(RisingEdges(wave)) = Len(bits)
              /\ Cardinality(falling) = Len(bits)
              /\ \A i \in RisingEdges(wave) :
                    LET k == Cardinality({j \in RisingEdges(wave) : j <= i})
                    IN /\ i > 1
                       /\ wave[i - 1][1] = bits[k]
                       /\ wave[i][1] = bits[k]
              /\ \A i \in 2..Len(wave) :
                    (wave[i - 1][2] = HIGH) => (wave[i][1] = wave[i - 1][1])
              /\ wave[Len(wave)][2] = LOW

\* SPI_WRITE32(0x87654321) has run on software SPI: 32 pulses, the first
\* with the data-out line high
C17_Witness ==
    /\ connection = TFT_SOFT_SPI
    /\ req.op = "SPI_WRITE32"
    /\ req.color = -2023406815
    /\ Len(wave) = 96
    /\ wave[1] = <<HIGH, LOW>>
    /\ wave[2] = <<HIGH, HIGH>>
    /\ wave[96] = <<HIGH, LOW>>
    /\ sck = LOW

\* C18: color565(r, g, b) is the 16-bit value with the top 5 bits of r in
\* bits 15..11, the top 6 bits of g in bits 10..5 and the top 5 bits of b in
\* bits 4..0; color565(255,255,255) = 0xFFFF, color565(0,0,0) = 0,
\* color565(255,0,0) = 0xF800, and the result never exceeds 0xFFFF.
C18_Color565Packs ==
    (nops = 1 /\ req.op = "color565")
        => /\ ret \in 0..65535
           /\ ret \div 2048 = req.x \div 8
           /\ (ret \div 32) % 64 = req.y \div 4
           /\ ret % 32 = req.w \div 8
           /\ (req.x = 255 /\ req.y = 255 /\ req.w = 255) => ret = 65535
           /\ (req.x = 0 /\ req.y = 0 /\ req.w = 0) => ret = 0
           /\ (req.x = 255 /\ req.y = 0 /\ req.w = 0) => ret = 63488

\* color565(255, 0, 0) has returned 0xF800
C18_Witness ==
    /\ nops = 1
    /\ req.op = "color565"
    /\ req.x = 255 /\ req.y = 0 /\ req.w = 0
    /\ ret = 63488

\* The clipped rectangle of a drawRGBBitmap request and the first source
\* column and row that survive
ClipX(r) == Max(r.x, 0)
ClipY(r) == Max(r.y, 0)
ClipW(r) == Min(r.x + r.w, _width) - ClipX(r)
ClipH(r) == Min(r.y + r.h, _height) - ClipY(r)
SkipX(r) == Max(0, -r.x)
SkipY(r) == Max(0, -r.y)

\* A source of positive size with a pixel on the canvas
SourceOverlaps(r) ==
    /\ r.w > 0 /\ r.h > 0
    /\ r.x < _width /\ r.y < _height
    /\ r.x + r.w - 1 >= 0 /\ r.y + r.h - 1 >= 0

\* C19: drawRGBBitmap of a W x H source (W, H > 0) that overlaps the canvas
\* streams exactly w' * h' pixels, row by row, the pixel of surviving row r
\* and column c being source[(by + r) * W + bx + c] with bx = max(0, -x)
\* and by = max(0, -y): clipped rows and columns are skipped and the row
\* stride is the unclipped width W.
C19_SourceOffsets ==
    (nops = 1 /\ req.op = "drawRGBBitmap" /\ SourceOverlaps(req))
        => LET s == PixelStream(log)
               wc == ClipW(req)
           IN /\ Len(s) = wc * ClipH(req)
              /\ \A k \in 1..Len(s) :
                    s[k] = BitsOf(req.data[((SkipY(req) + ((k - 1) \div wc)) * req.w)
                                           + SkipX(req) + ((k - 1) % wc) + 1], 16)

\* The places of the setAddrWindow calls in a log
WindowPlaces(l) == SelectSeq([i \in 1..Len(l) |-> i], LAMBDA i : l[i].ev = "setAddrWindow")

\* The number of pixels on the bus ahead of place i of a log
PixelsBefore(l, i) == BusBytes(SubSeq(l, 1, i - 1)) \div 2

\* C20 as stated: drawRGBBitmap sets the window once per surviving row,
\* to the one-row span (x', y' + r, w', 1), immediately before that row's
\* pixels; h' surviving rows make h' window sets.
C20_WindowPerRow ==
    (nops = 1 /\ req.op = "drawRGBBitmap" /\ req.w > 0 /\ req.h > 0 /\ log # <<>>)
        => /\ Windows(log) = [r \in 1..ClipH(req) |->
                                <<ClipX(req), ClipY(req) + r - 1, ClipW(req), 1>>]
           /\ \A r \in 1..Len(WindowPlaces(log)) :
                 PixelsBefore(log, WindowPlaces(log)[r]) = (r - 1) * ClipW(req)

\* C20: drawRGBBitmap sets the window once per call, not once per row: a
\* call that puts anything on the bus sets exactly one window, the whole
\* clipped rectangle (x', y', w', h'), immediately before the pixels of the
\* first row, and streams the h' surviving rows after it with no further
\* window set; a call that is rejected sets none.
C20_OneWindowPerCall ==
    (nops = 1 /\ req.op = "drawRGBBitmap" /\ req.w > 0 /\ req.h > 0)
        => IF log = <<>> THEN Windows(log) = <<>>
           ELSE /\ Windows(log) = <<<<ClipX(req), ClipY(req), ClipW(req), ClipH(req)>>>>
                /\ PixelsBefore(log, WindowPlaces(log)[1]) = 0
                /\ log[WindowPlaces(log)[1] + 1].ev \in BusEvents
                /\ BusBytes(log) = 2 * ClipW(req) * ClipH(req)
                /\ log[1].ev = "startWrite"
                /\ log[Len(log)].ev = "endWrite"

\* The 10 x 10 source at x = -3: one window over every row of the canvas
C20_Witness ==
    /\ nops = 1
    /\ req.op = "drawRGBBitmap"
    /\ req.x = -3 /\ req.y = 0 /\ req.w = 10 /\ req.h = 10
    /\ Windows(log) = <<<<0, 0, Min(7, _width), Min(10, _height)>>>>
    /\ BusBytes(log) = 2 * Min(7, _width) * Min(10, _height)

\* A source with no pixel on the canvas
SourceOffCanvas(r) ==
    \/ r.x >= _width \/ r.y >= _height
    \/ r.x + r.w - 1 < 0 \/ r.y + r.h - 1 < 0

\* C21: drawRGBBitmap with a degenerate source extent (w <= 0 or h <= 0),
\* wherever it is placed, or with a source wholly off the canvas, is
\* rejected in silence: no startWrite, no endWrite, no setAddrWindow, no
\* pixel write.
C21_DegenerateBitmapIsSilent ==
    (/\ nops > 0
     /\ req.op = "drawRGBBitmap"
     /\ (req.w <= 0 \/ req.h <= 0 \/ SourceOffCanvas(req)))
        => log = <<>>

\* The 16-bit pixel transmitted for column i of row j by drawXBitmap: row j
\* is the (j + 1)-th block transfer, two bytes a pixel, high byte first
XPixel(l, j, i) ==
    (Transfers(l)[j + 1][(2 * i) + 1] * 256) + Transfers(l)[j + 1][(2 * i) + 2]

\* The pixels that were transmitted: <<row, column>>
XSent(l) ==
    {p \in (0..(Len(Transfers(l)) - 1)) \X (0..Max(0, req.w - 1)) :
        (2 * p[2]) + 2 <= Len(Transfers(l)[p[1] + 1])}

\* The source byte of column i of row j
XByte(r, j, i) == r.data[(j * ((r.w + 7) \div 8)) + (i \div 8) + 1]

\* C22 as stated: the pixel at column i of row j is the foreground colour
\* iff the bit of bitmap[j * ceil(w/8) + i div 8] taken most significant
\* bit first (bit 7 for i mod 8 = 0) is set, the background colour
\* otherwise.
C22_MostSignificantFirst ==
    (nops = 1 /\ req.op = "drawXBitmap")
        => \A p \in XSent(log) :
              XPixel(log, p[1], p[2]) =
                  IF (XByte(req, p[1], p[2]) \div Pow2(7 - (p[2] % 8))) % 2 = 1
                  THEN req.color ELSE req.bg

\* C22: the pixel drawXBitmap transmits for column i of row j is the
\* foreground colour iff the bit of bitmap[j * ceil(w/8) + i div 8] taken
\* least significant bit first (bit 0 for i mod 8 = 0, up to bit 7 for
\* i mod 8 = 7) is set, and the background colour otherwise.
C22_LeastSignificantFirst ==
    (nops = 1 /\ req.op = "drawXBitmap")
        => \A p \in XSent(log) :
              XPixel(log, p[1], p[2]) =
                  IF (XByte(req, p[1], p[2]) \div Pow2(p[2] % 8)) % 2 = 1
                  THEN req.color ELSE req.bg

\* The 10 x 2 bitmap has gone out on hardware SPI: row 0 starts with the
\* bits of 0xA5 from bit 0 up (1, 0, 1, 0, 0, 1, 0, 1), then bit 0 of 0x01
C22_Witness ==
    /\ nops = 1
    /\ req.op = "drawXBitmap"
    /\ req.w = 10
    /\ connection = TFT_HARD_SPI
    /\ Len(Transfers(log)) = 2
    /\ [i \in 1..10 |-> XPixel(log, 0, i - 1)] =
          <<63488, 31, 63488, 31, 31, 63488, 31, 63488, 63488, 31>>

\* C23: drawXBitmap with w > 0 and h > 0 makes, inside one startWrite /
\* endWrite bracket, exactly h repetitions of: stage row j, set the window
\* (x, y + j, w, 1), issue one block transfer of 2 * w bytes.  Nothing is
\* clipped: the windows carry the caller's coordinates, on the canvas or
\* off it.
C23_RowByRow ==
    (nops = 1 /\ req.op = "drawXBitmap" /\ req.w > 0 /\ req.h > 0)
        => /\ ~halted
           /\ Len(log) = (2 * req.h) + 2
           /\ log[1].ev = "startWrite"
           /\ log[Len(log)].ev = "endWrite"
           /\ \A j \in 1..req.h :
                 /\ log[2 * j].ev = "setAddrWindow"
                 /\ log[2 * j].args = <<U16(req.x), U16(req.y + j - 1), U16(req.w), 1>>
                 /\ log[(2 * j) + 1].ev = "spi"
                 /\ Len(log[(2 * j) + 1].args) = 2 * req.w

\* C24: the scratch buffer is allocated exactly once: the first initSPI of
\* a hardware-SPI instance allocates it, and no later initSPI allocates
\* again or replaces the buffer.  (No function frees it: the model has no
\* free.)  Each malloc returns a block of its own, so the number of malloc
\* calls made is the identity of the buffer.
C24_AllocatedOnce ==
    /\ allocs <= 1
    /\ (connection = TFT_HARD_SPI /\ inited) => allocs = 1

\* A point of the canvas
PointOnCanvas(r) == r.x >= 0 /\ r.x < _width /\ r.y >= 0 /\ r.y < _height

\* One 16-bit write of a value, as it shows in the log: a transfer of the
\* two bytes on hardware SPI, 16 clocked bits on software SPI
IsWrite16(e, v) ==
    IF connection = TFT_HARD_SPI
    THEN e.ev = "spi" /\ e.args = <<v \div 256, v % 256>>
    ELSE e.ev = "clk" /\ e.args = BitsOf(v, 16)

\* C25: writePixel(x, y, color) with (x, y) on the canvas issues exactly
\* one setAddrWindow(x, y, 1, 1) followed by exactly one 16-bit write of
\* color, and with (x, y) off the canvas issues nothing; either way it
\* calls neither startWrite nor endWrite and leaves chip-select and the
\* transaction state as they were.
C25_WritePixelFrame ==
    [][(nops = 0 /\ req.op = "writePixel")
        => /\ cs' = cs
           /\ txn' = txn
           /\ starts' = starts
           /\ ends' = ends
           /\ IF PointOnCanvas(req)
              THEN /\ Len(log') = 2
                   /\ log'[1].ev = "setAddrWindow"
                   /\ log'[1].args = <<req.x, req.y, 1, 1>>
                   /\ IsWrite16(log'[2], req.color)
              ELSE log' = <<>>]_vars

\* writePixel at the last point of the canvas has run
C25_Witness ==
    /\ nops = 1
    /\ req.op = "writePixel"
    /\ req.x = CanvasW - 1 /\ req.y = CanvasH - 1
    /\ Windows(log) = <<<<CanvasW - 1, CanvasH - 1, 1, 1>>>>
    /\ Len(log) = 2
    /\ txn = "Active"
    /\ cs = LOW

(* ------------------------------------------------------------------ *)
(* SpecTxn: sequences of calls inside and around one transaction      *)
(* ------------------------------------------------------------------ *)
\* One call of each function that is documented to run inside a
\* transaction the caller has opened (a clipped and a rejected rectangle
\* among them)
TxnRequests ==
    {Request("writePixel", 1, 1, 1, 1, 63488, <<>>, 0, "none"),
     Request("writePixels", 0, 0, 3, 0, 0, PixelArray(3), 0, "none"),
     Request("writeColor", 0, 0, 2, 0, 21845, <<>>, 0, "none"),
     Request("writeColor", 0, 0, 0, 0, 21845, <<>>, 0, "none"),
     Request("writeFillRect", -1, -1, 3, 3, 63488, <<>>, 0, "none"),
     Request("writeFillRect", CanvasW, 0, 1, 1, 63488, <<>>, 0, "none"),
     Request("writeFastHLine", 2, 1, -3, 1, 21845, <<>>, 0, "none"),
     Request("writeFastVLine", 1, CanvasH - 1, 1, 4, 63488, <<>>, 0, "none"),
     Request("writeFillRectPreclipped", 1, 1, 2, 2, 21845, <<>>, 0, "none"),
     Request("writeCommand", 0, 0, 0, 0, 44, <<>>, 0, "none"),
     Request("SPI_WRITE8", 0, 0, 0, 0, 165, <<>>, 0, "none"),
     Request("SPI_WRITE16", 0, 0, 0, 0, 4660, <<>>, 0, "none"),
     Request("SPI_WRITE32", 0, 0, 0, 0, 305419896, <<>>, 0, "none")}

\* The display after initSPI, outside a transaction or just inside one
InitTxn ==
    /\ connection \in Connections
    /\ inited = TRUE
    /\ req = NoRequest
    /\ txn \in {"Idle", "Active"}
    /\ cs = (IF txn = "Active" THEN LOW ELSE HIGH)
    /\ dc = HIGH
    /\ rst = HIGH
    /\ mosi = LOW
    /\ sck = LOW
    /\ spi_buffer = (IF connection = TFT_HARD_SPI THEN [i \in 1..SPI_BUFFER_SIZE |-> 0]
                                                  ELSE <<>>)
    /\ allocs = (IF connection = TFT_HARD_SPI THEN 1 ELSE 0)
    /\ halted = FALSE
    /\ undef = {}
    /\ log = <<>>
    /\ wave = <<>>
    /\ ret = 0
    /\ starts = (IF txn = "Active" THEN 1 ELSE 0)
    /\ ends = 0
    /\ nops = 0

TxnStartWrite ==
    /\ txn = "Idle"
    /\ Call(Request("startWrite", 0, 0, 0, 0, 0, <<>>, 0, "none"))

TxnWrite ==
    /\ txn = "Active"
    /\ \E r \in TxnRequests : Call(r)

TxnEndWrite ==
    /\ txn = "Active"
    /\ Call(Request("endWrite", 0, 0, 0, 0, 0, <<>>, 0, "none"))

NextTxn ==
    \/ TxnStartWrite
    \/ TxnWrite
    \/ TxnEndWrite

SpecTxn == InitTxn /\ [][NextTxn]_vars

\* C26: between a startWrite and its endWrite, every call of a function
\* that makes no bracket of its own (writePixel, writePixels, writeColor,
\* writeFillRect, writeFastHLine, writeFastVLine, writeFillRectPreclipped,
\* writeCommand, SPI_WRITE8/16/32), whatever ran before it in the same
\* bracket, leaves the transaction Active and chip-select asserted, and
\* chip-select is low at everything it puts on the bus.
C26_StaysActive ==
    [][(txn = "Active" /\ nops' = nops + 1 /\ req'.op \in NotSelfContained)
        => /\ txn' = "Active"
           /\ cs = LOW
           /\ cs' = LOW
           /\ starts' = starts
           /\ ends' = ends
           /\ \A i \in DOMAIN log' :
                 /\ log'[i].cs = LOW
                 /\ log'[i].ev \notin {"startWrite", "endWrite"}]_vars

\* Three calls in a row inside one transaction, the last a writeCommand
\* after a fill
C26_Witness ==
    /\ nops = 3
    /\ starts = 1
    /\ ends = 0
    /\ txn = "Active"
    /\ cs = LOW
    /\ req.op = "writeCommand"
    /\ Count(log, "spi") + Count(log, "clk") = 1

\* The non-bracketing twin of a self-contained request
Twin(r) ==
    [r EXCEPT !.op = CASE r.op = "fillRect" -> "writeFillRect"
                       [] r.op = "drawFastHLine" -> "writeFastHLine"
                       [] r.op = "drawFastVLine" -> "writeFastVLine"
                       [] r.op = "drawPixel" -> "writePixel"]

\* C27: for all arguments, fillRect, drawFastHLine, drawFastVLine and
\* drawPixel do what startWrite; their non-bracketing twin; endWrite does
\* when the twin accepts the request (the same setAddrWindow arguments, the
\* same pixel stream, the same state afterwards), and do nothing at all
\* when the twin rejects it.
C27_TwinInBracket ==
    [][(nops = 0 /\ req.op \in DrawClipOps)
        => LET inner == Exec(startWrite(Cur), Twin(req))
               t == endWrite(inner)
           IN IF Len(inner.log) = 1
              THEN /\ log' = <<>>
                   /\ cs' = cs /\ dc' = dc /\ txn' = txn
                   /\ spi_buffer' = spi_buffer
              ELSE /\ log' = t.log
                   /\ Windows(log') = Windows(inner.log)
                   /\ cs' = t.cs /\ dc' = t.dc /\ txn' = t.txn
                   /\ mosi' = t.mosi /\ sck' = t.sck
                   /\ spi_buffer' = t.buf]_vars

\* fillRect(-1, -1, 10, 10) has run: the whole canvas, as its twin fills it
C27_Witness ==
    /\ nops = 1
    /\ req.op = "fillRect"
    /\ req.x = -1 /\ req.y = -1 /\ req.w = 10 /\ req.h = 10
    /\ Windows(log) = <<<<0, 0, Min(9, _width), Min(9, _height)>>>>
    /\ Windows(writeFillRect(Cur, -1, -1, 10, 10, req.color).log) = Windows(log)

\* C28: no operation stores into the scratch buffer outside the byte
\* indices 0 .. SPI_BUFFER_SIZE - 1, and no block transfer reads more than
\* SPI_BUFFER_SIZE bytes from it; drawXBitmap with a row of more than
\* SPI_BUFFER_SIZE / 2 pixels, in particular, neither stores nor transmits
\* past the end of the buffer.
C28_BufferBounds ==
    (nops = 1)
        => /\ "overrun" \notin undef
           /\ Len(spi_buffer) \in {0, SPI_BUFFER_SIZE}
           /\ \A k \in 1..Len(Transfers(log)) : Len(Transfers(log)[k]) <= SPI_BUFFER_SIZE

\* C29: on a software-SPI instance no operation, drawXBitmap included,
\* calls the hardware transport or reads or writes the scratch buffer:
\* whatever it sends leaves through the bit-banged data and clock lines.
C29_SoftwareUsesPinsOnly ==
    (connection = TFT_SOFT_SPI)
        => /\ undef = {}
           /\ Count(log, "spi") = 0
           /\ spi_buffer = <<>>
           /\ allocs = 0
           /\ ~halted

\* The drawing operations: those that address pixels of the canvas
DrawingOps ==
    {"drawPixel", "fillRect", "drawFastHLine", "drawFastVLine", "drawRGBBitmap",
     "drawXBitmap", "writePixel", "writeFillRect", "writeFastHLine", "writeFastVLine",
     "writeFillRectPreclipped"}

\* The number of pixels on the bus between the k-th setAddrWindow of a log
\* and the next one, or the end of the log
PixelsAfter(l, k) ==
    LET wp == WindowPlaces(l)
        to == IF k < Len(wp) THEN wp[k + 1] - 1 ELSE Len(l)
    IN BusBytes(SubSeq(l, wp[k] + 1, to)) \div 2

\* C30: a drawing operation sends pixel data only after a setAddrWindow of
\* its own, and between one setAddrWindow(x, y, w, h) and the next, or the
\* end of the operation, it sends exactly w * h pixels.
C30_WindowThenItsPixels ==
    (nops > 0 /\ req.op \in DrawingOps)
        => /\ IF WindowPlaces(log) = <<>> THEN BusBytes(log) = 0
              ELSE PixelsBefore(log, WindowPlaces(log)[1]) = 0
           /\ \A k \in 1..Len(WindowPlaces(log)) :
                 PixelsAfter(log, k) = Windows(log)[k][3] * Windows(log)[k][4]

====
